---------------------------- MODULE Spec2Model ----------------------------
(***************************************************************************)
(* Brandy Box sync engine (client-tauri/src-tauri/src/sync.rs, run_sync)   *)
(* and the part of the driver (lib.rs) that frames one cycle.              *)
(*                                                                         *)
(* A relative path is a sequence of tokens: directory and file names, and  *)
(* the separators "/" and "\\".  A file is (mtime, hash); the hash stands  *)
(* for the SHA-256 of the content, so two files have equal content iff     *)
(* their hashes are equal.                                                 *)
(*                                                                         *)
(* run_sync is cut into steps at its blocking calls (the listing, each     *)
(* delete, the plan with its file reads, each download, each upload, the   *)
(* commit), so that what the error taxonomy names can happen in between:   *)
(* a file removed from the server before its download (404), a file        *)
(* removed by the user before its upload, a failing call.                  *)
(*                                                                         *)
(* Not modelled: the byte counts of the transfers; the save at the commit   *)
(* of a cycle succeeds (a save cut short is followed in DocSpec); a        *)
(* remove_dir of the cleanup after a local delete succeeds.                *)
(***************************************************************************)
EXTENDS Integers, Sequences, FiniteSets, TLC

\* ------------------------------------------------------------------ bounds
MaxCycles == 2          \* cycles run by the driver in one behaviour
MaxAnomalies == 2       \* failed calls plus external changes in one behaviour
MaxInitMTime == 2       \* modification times of the files present at the start
BulkSlack == 1          \* bulk folders hold GuardrailLimit -/+ BulkSlack files
MaxTriggers == 2        \* invocations of the run_sync command in one behaviour
MaxLoopIterations == 2  \* iterations of the background loop in one behaviour
MaxPaths == 2           \* entries of `paths` in a document that is saved and loaded

\* ------------------------------------------------------- program constants
GuardrailLimit == 50
SYNC_IGNORE == {".directory", "Thumbs.db", "Desktop.ini", ".DS_Store"}

NoHash == "none"        \* Option::None of FileItem.hash / compute_file_hash
Hashes == {"h1", "h2"}
MTimes == 1..MaxInitMTime

\* ------------------------------------------------------------------- paths
A == <<"a.txt">>
B == <<"sub", "/", "b.bin">>
IgnName == <<".DS_Store">>
IgnGit == <<".git", "/", "config">>
IgnBackslash == <<"sub", "\\", "Thumbs.db">>
IgnoredNamed == {IgnName, IgnGit, IgnBackslash}

BulkDirs == <<"d0", "d1", "d2", "d3", "d4", "d5", "d6", "d7", "d8", "d9">>
BulkFiles == <<"f00", "f01", "f02", "f03", "f04", "f05", "f06", "f07", "f08", "f09", "f10">>
NBulk == Len(BulkDirs) * Len(BulkFiles)
BulkPath(n) == <<BulkDirs[((n - 1) \div Len(BulkFiles)) + 1], "/", BulkFiles[((n - 1) % Len(BulkFiles)) + 1]>>
Bulk(lo, hi) == {BulkPath(n) : n \in lo..hi}

\* Every path of the model, in the byte order of the strings
\* (".DS_Store" < ".git/config" < "a.txt" < "d0/f00" < ... < "sub/b.bin" < "sub\\Thumbs.db").
SortedUniverse ==
    <<IgnName, IgnGit, A>> \o [n \in 1..NBulk |-> BulkPath(n)] \o <<B, IgnBackslash>>
Universe == {SortedUniverse[k] : k \in 1..Len(SortedUniverse)}

Reverse(s) == [k \in 1..Len(s) |-> s[Len(s) + 1 - k]]
Range(s) == {s[k] : k \in 1..Len(s)}

\* Vec::sort on paths: the elements of S in byte order.
Sort(S) == SelectSeq(SortedUniverse, LAMBDA p : p \in S)

\* The order in which a HashSet (or walkdir) hands out the elements of S: unspecified;
\* the model knows two orders.
IterOrders == {"fwd", "rev"}
Iterate(S, order) ==
    IF order = "fwd" THEN Sort(S) ELSE Reverse(Sort(S))

\* path.matches('/').count()
Depth(p) == Cardinality({k \in 1..Len(p) : p[k] = "/"})

\* sort_by(|a, b| depth(b).cmp(depth(a))) on the collected HashSet: a stable sort,
\* deepest first, ties in iteration order.
RECURSIVE FromDepth(_, _)
FromDepth(s, d) ==
    IF d < 0 THEN <<>> ELSE SelectSeq(s, LAMBDA p : Depth(p) = d) \o FromDepth(s, d - 1)
SortByDepthDesc_unsorted(S, order) == Iterate(S, order)

SortByDepthDesc(S, order) ==
    LET deepest == IF S = {} THEN 0 ELSE CHOOSE d \in {Depth(p) : p \in S} : \A q \in S : Depth(q) <= d
    IN  FromDepth(Iterate(S, order), deepest)

\* The directories are named by their components; the sync root has none.
local_root == <<>>
\* Path::parent of a file or a directory under the root
Parent(p) ==
    IF \E k \in 1..Len(p) : p[k] = "/"
    THEN SubSeq(p, 1, (CHOOSE k \in 1..Len(p) : p[k] = "/" /\ \A j \in (k + 1)..Len(p) : p[j] # "/") - 1)
    ELSE local_root
\* the directories a folder with the files of fs is made of
DirsOf(fs) == {local_root} \cup {Parent(p) : p \in DOMAIN fs}
\* p.read_dir().map(|mut d| d.next().is_none()).unwrap_or(false)
DirIsEmpty(dirs, fs, d) ==
    /\ d \in dirs
    /\ \A p \in DOMAIN fs : Parent(p) # d
    /\ \A e \in dirs \ {local_root} : Parent(e) # d

\* `while let Some(p) = parent`: the empty directories above a removed file are
\* removed, from the file's own directory upwards, up to the first one that is the
\* root or is not empty.
RECURSIVE RemoveEmptyParents(_, _, _)
RemoveEmptyParents(dirs, fs, d) ==
    IF d # local_root /\ DirIsEmpty(dirs, fs, d)
    THEN RemoveEmptyParents(dirs \ {d}, fs, Parent(d))
    ELSE dirs

\* is_ignored
Normalized(p) == [k \in 1..Len(p) |-> IF p[k] = "\\" THEN "/" ELSE p[k]]
FileName(n) == IF Len(n) = 0 \/ n[Len(n)] = "/" THEN "" ELSE n[Len(n)]
is_ignored(p) ==
    LET n == Normalized(p)
    IN  \/ \E k \in 1..(Len(n) - 2) : n[k] = "/" /\ n[k + 1] = ".git" /\ n[k + 2] = "/"
        \/ (Len(n) >= 2 /\ n[1] = ".git" /\ n[2] = "/")
        \/ FileName(n) \in SYNC_IGNORE

\* HashMap::insert
Insert(f, k, v) == [x \in (DOMAIN f) \cup {k} |-> IF x = k THEN v ELSE f[x]]
Remove(f, k) == [x \in (DOMAIN f) \ {k} |-> f[x]]
Empty == [x \in {} |-> 0]

\* ------------------------------------------------------------ plan (pure)
\* list_local: the regular files under the root that are not ignored, with their mtime.
list_local(fs) == [p \in {q \in DOMAIN fs : ~is_ignored(q)} |-> fs[p].mtime]

compute_file_hash_goneAsEmpty(fs, p) == IF p \in DOMAIN fs THEN fs[p].hash ELSE "h1"

\* compute_file_hash behind `local_path.exists() && local_path.is_file()`.
compute_file_hash(fs, p) == IF p \in DOMAIN fs THEN fs[p].hash ELSE NoHash

\* ApiClient::list_files: FileItem {path, mtime, hash: Option}.
FileItems(srv, listsHashes) ==
    [p \in DOMAIN srv |-> [mtime |-> srv[p].mtime,
                           hash |-> IF listsHashes THEN srv[p].hash ELSE NoHash]]

\* remote_hashes: the items that carry a hash.
RemoteHashes(items) == [p \in {q \in DOMAIN items : items[q].hash # NoHash} |-> items[p].hash]

DeleteRemoteCandidates_ignoresLocal(lastSynced, currentLocal) ==
    {p \in lastSynced : ~is_ignored(p)}

\* last_synced.difference(&current_local).filter(|p| !is_ignored(p))
DeleteRemoteCandidates(lastSynced, currentLocal) ==
    {p \in lastSynced \ currentLocal : ~is_ignored(p)}

GuardrailFires_nonstrict(candidates, currentLocal) ==
    /\ Cardinality(candidates) >= GuardrailLimit
    /\ Cardinality(candidates) >= Cardinality(currentLocal)

\* the safety check before to_delete_remote.clear()
GuardrailFires(candidates, currentLocal) ==
    /\ Cardinality(candidates) > GuardrailLimit
    /\ Cardinality(candidates) > Cardinality(currentLocal)

ToDeleteRemote_eitherTest(lastSynced, currentLocal) ==
    LET c == DeleteRemoteCandidates(lastSynced, currentLocal)
    IN  IF Cardinality(c) > GuardrailLimit \/ Cardinality(c) > Cardinality(currentLocal)
        THEN {} ELSE c

\* to_delete_remote after the guardrail
ToDeleteRemote(lastSynced, currentLocal) ==
    LET c == DeleteRemoteCandidates(lastSynced, currentLocal)
    IN  IF GuardrailFires(c, currentLocal) THEN {} ELSE c

\* last_synced.difference(&current_remote)
ToDeleteLocal(lastSynced, currentRemote) == lastSynced \ currentRemote

\* total_work
TotalWork(delRemote, delLocal, currentLocal, currentRemote) ==
    Len(delRemote) + Len(delLocal)
    + Cardinality({p \in currentRemote \ currentLocal : ~is_ignored(p)})
    + Cardinality({p \in currentLocal \ currentRemote : ~is_ignored(p)})

\* base_synced
BaseSynced(currentLocal, delLocalSet, currentRemote, delRemoteSet) ==
    {p \in (currentLocal \ delLocalSet) \cap (currentRemote \ delRemoteSet) : ~is_ignored(p)}

RetainNotDeleted_all(S, delRemoteSet) == S

\* to_download.retain(|path| !to_del_remote_set.contains(path))
RetainNotDeleted(S, delRemoteSet) == S \ delRemoteSet

HashMatches_listedOnly(p, remoteHashes, fs) == p \in DOMAIN remoteHashes

\* the server hash is listed and the hash computed from the local file equals it
HashMatches(p, remoteHashes, fs) ==
    /\ p \in DOMAIN remoteHashes
    /\ compute_file_hash(fs, p) # NoHash
    /\ compute_file_hash(fs, p) = remoteHashes[p]

\* the paths of the mtime loop whose content matches: file_hashes.insert, continue
DownloadHashSkips(localList, items, fs) ==
    {p \in DOMAIN localList :
        /\ ~is_ignored(p) /\ p \in DOMAIN items
        /\ items[p].mtime > localList[p]
        /\ HashMatches(p, RemoteHashes(items), fs)}

DownloadNewer_mtimeOnly(localList, items, fs) ==
    {p \in DOMAIN localList :
        ~is_ignored(p) /\ p \in DOMAIN items /\ items[p].mtime > localList[p]}

\* the paths the mtime loop pushes
DownloadNewer(localList, items, fs) ==
    {p \in DOMAIN localList :
        /\ ~is_ignored(p) /\ p \in DOMAIN items
        /\ items[p].mtime > localList[p]
        /\ ~HashMatches(p, RemoteHashes(items), fs)}

ToDownload_newerOnly(localList, items, delRemoteSet, fs) ==
    Sort(DownloadNewer(localList, items, fs))

\* to_download, after sort and dedup
ToDownload(localList, items, delRemoteSet, fs) ==
    Sort(RetainNotDeleted({p \in (DOMAIN items) \ (DOMAIN localList) : ~is_ignored(p)}, delRemoteSet)
         \cup DownloadNewer(localList, items, fs))

UploadWanted_mtimeOnly(p, localList, items, fs) ==
    IF p \notin DOMAIN items THEN TRUE ELSE localList[p] > items[p].mtime

\* the filter of to_upload on one entry of local_list
UploadWanted(p, localList, items, fs) ==
    IF p \notin DOMAIN items THEN TRUE
    ELSE IF HashMatches(p, RemoteHashes(items), fs) THEN FALSE
    ELSE localList[p] > items[p].mtime

ToUpload_everyLocal(localList, items, fs, order) ==
    SelectSeq(Iterate(DOMAIN localList, order), LAMBDA p : ~is_ignored(p))

\* to_upload, in the order of local_list
ToUpload(localList, items, fs, order) ==
    SelectSeq(Iterate(DOMAIN localList, order),
              LAMBDA p : ~is_ignored(p) /\ UploadWanted(p, localList, items, fs))

NewSynced_uploadsForgotten(baseSynced, completedDownloads, completedUploads) ==
    Sort(baseSynced \cup completedDownloads)

\* new_synced, sorted
NewSynced(baseSynced, completedDownloads, completedUploads) ==
    Sort(baseSynced \cup completedDownloads \cup completedUploads)

\* ------------------------------------------------------------------- state
VARIABLES
    \* the world
    stateFile,            \* sync_state.json: paths, downloaded_paths, file_hashes
    localFs,              \* regular files under the sync root: path -> (mtime, hash)
    localDirs,            \* the directories that exist, the sync root among them
    remoteFs,             \* files on the server: path -> (mtime, hash)
    serverListsHashes,    \* whether the listing carries a hash per item
    now,                  \* the clock: mtime of what is written in the current cycle
    order,                \* iteration order of HashSet / walkdir in this behaviour
    \* process-wide cells
    SYNC_STATUS, SYNC_MESSAGE, SYNC_PROGRESS,
    \* locals of run_sync
    pc, state, last_synced, prev_downloaded, local_list, remote_list,
    to_del_remote, to_del_local, total_work, done, i,
    base_synced, to_download, to_upload,
    completed_downloads, skipped_downloads, completed_uploads, skipped_uploads,
    failed_downloads,     \* the downloads of the cycle that failed: the path, and the HTTP status
                          \* of the request ("none": no response) or the error of the write
    result, warning_msg,
    \* history
    cycles, anomalies, prevStateFile, prevResult, listed, uploadedBefore,
    deleteCalls, downloadCalls, uploadCalls,
    everDownloaded, userDeleted, redownloaded, serverChanged,
    matchedAtPlan,        \* paths whose local content had the listed hash when the plan was made
    hash_inserts,         \* the state.file_hashes.insert calls of the cycle: path, hash, where
    opLog,                \* the phases of the operations of the cycle, in the order they happened
    \* the driver (lib.rs), with run_sync as one call
    config_folder,        \* config::user_has_set_sync_folder()
    credentials,          \* the keyring: "none" or "stored" (email and refresh token)
    base_url_mode,        \* "manual", or "auto": get_base_url probes the LAN host
    workers,              \* the threads spawned by the run_sync command: where each one is
    loop_pc,              \* the background loop: "sleep", "ready" (about to set Syncing), "cycle"
    loop_iterations,      \* iterations the background loop has finished
    triggers,             \* invocations of the run_sync command so far
    reply,                \* what the last invocation returned to its caller
    remote_calls,         \* requests sent so far: LAN probes, token refreshes, cycles' calls
    last_write,           \* the last write of the status cell: the value it replaced, the value written
    returned,             \* what sync::run_sync returned last: the result and the byte totals
    emitted,              \* the events the last step of the driver emitted, in order
    \* one call of the remote client (api.rs)
    api_op,               \* the method called
    net,                  \* what the network does to the successive requests of the call
    attempts,             \* requests sent by the call so far
    api_pc,               \* "idle", "calling", "returned"
    api_result,           \* "none", or the Result of the call: "Ok" or "Err"
    last_err,             \* last_err of the retry loop
    \* the state document on its way through sync_state.json
    doc,                  \* the SyncStateFile given to save_sync_state
    file_exists,          \* whether sync_state.json exists
    sync_state_json,      \* its text, character by character
    loaded,               \* what load_sync_state returned
    doc_pc                \* "start", "saved", "torn", and "loaded.." after each of them

worldVars == <<stateFile, localFs, localDirs, remoteFs, serverListsHashes, now, order>>
cellVars == <<SYNC_STATUS, SYNC_MESSAGE, SYNC_PROGRESS>>
scanVars == <<state, last_synced, prev_downloaded, local_list, remote_list,
              to_del_remote, to_del_local, total_work, listed>>
planVars == <<base_synced, to_download, to_upload, matchedAtPlan, hash_inserts>>
execVars == <<completed_downloads, skipped_downloads, completed_uploads, skipped_uploads,
              failed_downloads>>
callVars == <<deleteCalls, downloadCalls, uploadCalls>>
histVars == <<cycles, prevStateFile, prevResult, uploadedBefore,
              everDownloaded, userDeleted, redownloaded, serverChanged>>
driverVars == <<config_folder, credentials, base_url_mode, workers, loop_pc, loop_iterations,
                triggers, reply, remote_calls, last_write, returned, emitted>>
apiVars == <<api_op, net, attempts, api_pc, api_result, last_err>>
docVars == <<doc, file_exists, sync_state_json, loaded, doc_pc>>
\* The variables of the other specifications of this module.
sideVars == <<driverVars, apiVars, docVars>>
\* What belongs to one cycle of the engine, the status cell apart.
engineVars == <<worldVars, SYNC_MESSAGE, SYNC_PROGRESS, pc, scanVars, done, i, planVars, execVars,
                result, warning_msg, callVars, histVars, anomalies, opLog>>
vars == <<worldVars, cellVars, pc, scanVars, done, i, planVars, execVars, result, warning_msg,
          callVars, histVars, anomalies, opLog, driverVars, apiVars, docVars>>

NamedPaths == {A, B} \cup IgnoredNamed
EmptyState == [paths |-> <<>>, downloaded_paths |-> {}, file_hashes |-> Empty]
Progress(phase, current, total) == [phase |-> phase, current |-> current, total |-> total]
\* Option::None of SYNC_PROGRESS
NoProgress == Progress("none", 0, 0)

\* ------------------------------------------------------------ initial state
Absent == [mtime |-> 0, hash |-> NoHash]
File(p, f) == IF f = Absent THEN Empty ELSE (p :> f)
Same(S, f) == [p \in S |-> f]
Hashed(p, h) == IF h = NoHash THEN Empty ELSE (p :> h)

\* What does not depend on the scenario.
InitCycle ==
    /\ now = MaxInitMTime
    /\ order \in IterOrders
    /\ SYNC_STATUS = "idle" /\ SYNC_MESSAGE = <<>> /\ SYNC_PROGRESS = NoProgress
    /\ pc = "idle" /\ state = EmptyState
    /\ last_synced = {} /\ prev_downloaded = {} /\ local_list = Empty /\ remote_list = Empty
    /\ to_del_remote = <<>> /\ to_del_local = <<>> /\ total_work = 0 /\ done = 0 /\ i = 1
    /\ base_synced = {} /\ to_download = <<>> /\ to_upload = <<>> /\ matchedAtPlan = {}
    /\ hash_inserts = {}
    /\ completed_downloads = {} /\ skipped_downloads = {} /\ failed_downloads = {}
    /\ completed_uploads = {} /\ skipped_uploads = {}
    /\ result = "none" /\ warning_msg = <<>> /\ opLog = <<>>
    /\ cycles = 0 /\ anomalies = 0 /\ prevStateFile = EmptyState /\ prevResult = "none"
    /\ listed = FALSE /\ uploadedBefore = FALSE
    /\ deleteCalls = {} /\ downloadCalls = {} /\ uploadCalls = {}
    /\ everDownloaded = {} /\ userDeleted = {} /\ redownloaded = {} /\ serverChanged = FALSE

\* Two ordinary files in every combination of presence, age and content.
InitCore ==
    \E la \in {Absent} \cup [mtime : MTimes, hash : {"h1"}],
       ra \in {Absent} \cup [mtime : MTimes, hash : Hashes],
       lb \in {Absent, [mtime |-> 1, hash |-> "h1"]},
       rb \in {Absent, [mtime |-> 2, hash |-> "h2"]},
       aSynced \in BOOLEAN, bSynced \in BOOLEAN,
       aHash \in {NoHash} \cup Hashes, aPrev \in BOOLEAN :
        /\ serverListsHashes \in BOOLEAN
        /\ (aHash # NoHash) => (serverListsHashes /\ ra # Absent)
        /\ aPrev => (la # Absent /\ ra # Absent)
        /\ localFs = File(A, la) @@ File(B, lb)
        /\ remoteFs = File(A, ra) @@ File(B, rb)
        /\ stateFile = [paths |-> Sort((IF aSynced THEN {A} ELSE {}) \cup (IF bSynced THEN {B} ELSE {})),
                        downloaded_paths |-> IF aPrev THEN {A} ELSE {},
                        file_hashes |-> Hashed(A, aHash)]

\* A state document, a folder or a listing that holds an ignored name.
InitIgnored ==
    \E g \in IgnoredNamed, gSynced \in BOOLEAN, gLocal \in BOOLEAN, gRemote \in BOOLEAN,
       la \in {Absent, [mtime |-> 1, hash |-> "h1"]},
       ra \in {Absent, [mtime |-> 2, hash |-> "h2"]},
       aSynced \in BOOLEAN :
        /\ gSynced \/ gLocal \/ gRemote
        /\ serverListsHashes = TRUE
        /\ localFs = File(A, la) @@ (IF gLocal THEN (g :> [mtime |-> 2, hash |-> "h1"]) ELSE Empty)
        /\ remoteFs = File(A, ra) @@ (IF gRemote THEN (g :> [mtime |-> 1, hash |-> "h2"]) ELSE Empty)
        /\ stateFile = [paths |-> Sort((IF aSynced THEN {A} ELSE {}) \cup (IF gSynced THEN {g} ELSE {})),
                        downloaded_paths |-> {},
                        file_hashes |-> Empty]

\* Many files, as on a new device or with a wrong folder: `missing` were synced, are
\* on the server and are gone from the folder; `kept` are in sync on both sides.
BulkMissing == {GuardrailLimit - BulkSlack, GuardrailLimit, GuardrailLimit + BulkSlack}
BulkKept == {0, GuardrailLimit, GuardrailLimit + BulkSlack}
InitBulk ==
    \E nMissing \in BulkMissing, nKept \in BulkKept,
       aCase \in {"none", "missing", "new"}, bLocal \in BOOLEAN :
        LET missing == Bulk(1, nMissing)
            kept == Bulk(nMissing + 1, nMissing + nKept)
            f == [mtime |-> 1, hash |-> "h1"]
        IN  /\ serverListsHashes = TRUE
            /\ order = "fwd"
            /\ localFs = Same(kept, f) @@ (IF aCase = "new" THEN (A :> f) ELSE Empty)
                         @@ (IF bLocal THEN (B :> f) ELSE Empty)
            /\ remoteFs = Same(kept, f) @@ Same(missing, f)
                          @@ (IF aCase = "missing" THEN (A :> f) ELSE Empty)
            /\ stateFile = [paths |-> Sort(missing \cup kept \cup (IF aCase = "missing" THEN {A} ELSE {})),
                            downloaded_paths |-> {},
                            file_hashes |-> Empty]

\* Work for each of the four phases: a file to delete on the server, one to delete
\* locally, one to download and one to upload.
InitAllPhases ==
    LET f == [mtime |-> 1, hash |-> "h1"]
    IN  /\ serverListsHashes \in BOOLEAN
        /\ localFs = (B :> f) @@ (BulkPath(2) :> f)
        /\ remoteFs = (A :> f) @@ (BulkPath(1) :> f)
        /\ stateFile = [paths |-> Sort({A, B}), downloaded_paths |-> {}, file_hashes |-> Empty]

\* The driver while the specification follows one cycle at a time: a folder is set,
\* a token is at hand, nothing else is triggered.
NoCalls == [probe |-> 0, refresh |-> 0, cycle |-> 0]
DriverAtRest ==
    /\ config_folder = TRUE /\ credentials = "stored" /\ base_url_mode = "manual"
    /\ workers = [w \in 1..MaxTriggers |-> "unspawned"]
    /\ loop_pc = "sleep" /\ loop_iterations = 0
    /\ triggers = 0 /\ reply = "none"
    /\ remote_calls = NoCalls
    /\ last_write = [from |-> "idle", to |-> "idle"]
    /\ returned = [res |-> "none", bytes |-> <<>>]
    /\ emitted = <<>>

\* No call of the remote client is followed on its own.
ApiAtRest ==
    /\ api_op = "none" /\ net = <<>> /\ attempts = 0
    /\ api_pc = "idle" /\ api_result = "none" /\ last_err = "none"

\* SyncStateFile::default()
DefaultDoc == [paths |-> <<>>, downloaded_paths |-> <<>>, file_hashes |-> Empty]

\* No document is followed through sync_state.json on its own.
DocAtRest ==
    /\ doc = DefaultDoc /\ file_exists = FALSE /\ sync_state_json = <<>>
    /\ loaded = DefaultDoc /\ doc_pc = "start"

Init ==
    /\ InitCycle /\ (InitCore \/ InitIgnored \/ InitBulk \/ InitAllPhases)
    /\ localDirs = DirsOf(localFs)
    /\ DriverAtRest /\ ApiAtRest /\ DocAtRest

\* ----------------------------------------------------------------- helpers
\* The phase that follows, given the work that is left.
AfterDeleteServer(k) ==
    IF k <= Len(to_del_remote) THEN "delete_server"
    ELSE IF Len(to_del_local) >= 1 THEN "delete_local" ELSE "plan"
AfterDeleteLocal_backToServer(k) ==
    IF k <= Len(to_del_local) THEN "delete_local"
    ELSE IF Len(to_del_remote) >= 1 THEN "delete_server" ELSE "plan"
AfterDeleteLocal(k) ==
    IF k <= Len(to_del_local) THEN "delete_local" ELSE "plan"
AfterDownload(k, downloads, uploads) ==
    IF k <= Len(downloads) THEN "download"
    ELSE IF Len(uploads) >= 1 THEN "upload" ELSE "commit"
AfterUpload(k) ==
    IF k <= Len(to_upload) THEN "upload" ELSE "commit"
NextIndex(k, phaseNow, phaseNext) == IF phaseNext = phaseNow THEN k ELSE 1

\* The log of the cycle's operations after one more of `phase`: runs of the same
\* phase are kept as one entry.
Logged(log, phase) ==
    IF Len(log) >= 1 /\ log[Len(log)] = phase THEN log ELSE Append(log, phase)

Warnings_uploadsForgotten(skippedDownloads, skippedUploads) ==
    IF skippedDownloads # {}
    THEN <<[count |-> Cardinality(skippedDownloads), what |-> "download(s) skipped"]>> ELSE <<>>

\* warnings: one part per non-empty skipped set, "{} download(s) skipped (...)" before
\* "{} upload(s) skipped (...)"; warning_msg is None when there is no part.
Warnings(skippedDownloads, skippedUploads) ==
    (IF skippedDownloads # {}
     THEN <<[count |-> Cardinality(skippedDownloads), what |-> "download(s) skipped"]>> ELSE <<>>)
    \o (IF skippedUploads # {}
        THEN <<[count |-> Cardinality(skippedUploads), what |-> "upload(s) skipped"]>> ELSE <<>>)

\* Ok((bytes_downloaded, bytes_uploaded, warning_msg)): whether the warning is Some.
OkResult(warnings) == IF warnings # <<>> THEN "OkWarning" ELSE "Ok"

TerminalStatus_errorUnset(res) ==
    CASE res = "Ok" -> "synced"
      [] res = "OkWarning" -> "warning"
      [] OTHER -> "syncing"

\* lib.rs: the status the match on the result of sync::run_sync sets.
TerminalStatus(res) ==
    CASE res = "Ok" -> "synced"
      [] res = "OkWarning" -> "warning"
      [] OTHER -> "error"

\* A call on one of the named files may fail; calls on the bulk files succeed.
MayFail(p) == p \in NamedPaths /\ anomalies < MaxAnomalies

FatalReturn_saves(onDisk, inMemory) == inMemory

\* What sync_state.json holds after run_sync returned through `?` or `return Err`:
\* no save_sync_state lies on those paths.
FatalReturn(onDisk, inMemory) == onDisk

\* `return Err(..)` / `?` out of run_sync, the document in memory being inMemory.
Fatal(inMemory) ==
    /\ pc' = "returned"
    /\ result' = "Err"
    /\ stateFile' = FatalReturn(stateFile, inMemory)
    /\ anomalies' = anomalies + 1
    /\ UNCHANGED warning_msg

\* ----------------------------------------------------------------- driver
\* lib.rs run_sync (command) / one iteration of spawn_background_sync_loop, up to the
\* call of sync::run_sync.
BeginCycle ==
    /\ pc = "idle" /\ cycles < MaxCycles
    /\ SYNC_STATUS' = "syncing" /\ SYNC_MESSAGE' = <<>>
    /\ pc' = "listing"
    /\ cycles' = cycles + 1
    /\ now' = now + 1
    /\ prevStateFile' = stateFile
    /\ UNCHANGED <<stateFile, localFs, localDirs, remoteFs, serverListsHashes, order, SYNC_PROGRESS,
                   scanVars, done, i, planVars, execVars, result, warning_msg, callVars,
                   prevResult, uploadedBefore, everDownloaded, userDeleted, redownloaded,
                   serverChanged, anomalies, opLog>>
    /\ UNCHANGED sideVars

\* lib.rs: the match on the result of sync::run_sync.
Finish ==
    /\ pc = "returned"
    /\ SYNC_STATUS' = TerminalStatus(result)
    /\ SYNC_MESSAGE' = (IF result = "OkWarning" THEN warning_msg ELSE <<>>)
    /\ prevResult' = result
    /\ pc' = "idle" /\ result' = "none" /\ warning_msg' = <<>> /\ opLog' = <<>>
    /\ state' = EmptyState
    /\ last_synced' = {} /\ prev_downloaded' = {} /\ local_list' = Empty /\ remote_list' = Empty
    /\ to_del_remote' = <<>> /\ to_del_local' = <<>> /\ total_work' = 0 /\ done' = 0 /\ i' = 1
    /\ base_synced' = {} /\ to_download' = <<>> /\ to_upload' = <<>> /\ matchedAtPlan' = {}
    /\ hash_inserts' = {}
    /\ completed_downloads' = {} /\ skipped_downloads' = {} /\ failed_downloads' = {}
    /\ completed_uploads' = {} /\ skipped_uploads' = {}
    /\ listed' = FALSE
    /\ uploadedBefore' = (uploadedBefore \/ uploadCalls # {})
    /\ deleteCalls' = {} /\ downloadCalls' = {} /\ uploadCalls' = {}
    /\ UNCHANGED <<worldVars, SYNC_PROGRESS, cycles, prevStateFile,
                   everDownloaded, userDeleted, redownloaded, serverChanged, anomalies>>
    /\ UNCHANGED sideVars

\* --------------------------------------------------------------- run_sync
\* load_sync_state, set_progress("listing"), list_local, list_files, the two delete
\* sets with the guardrail, total_work.
Scan ==
    /\ pc = "listing"
    /\ state' = stateFile
    /\ last_synced' = Range(stateFile.paths)
    /\ prev_downloaded' = stateFile.downloaded_paths
    /\ local_list' = list_local(localFs)
    /\ \/ \* list_files returned the listing
          LET items == FileItems(remoteFs, serverListsHashes)
              currentLocal == DOMAIN list_local(localFs)
              currentRemote == DOMAIN items
              lastSynced == Range(stateFile.paths)
              delRemote == SortByDepthDesc(ToDeleteRemote(lastSynced, currentLocal), order)
              delLocal == SortByDepthDesc(ToDeleteLocal(lastSynced, currentRemote), order)
          IN  /\ remote_list' = items
              /\ listed' = TRUE
              /\ to_del_remote' = delRemote
              /\ to_del_local' = delLocal
              /\ total_work' = TotalWork(delRemote, delLocal, currentLocal, currentRemote)
              /\ SYNC_PROGRESS' = Progress("listing", 0, 0)
              /\ pc' = IF Len(delRemote) >= 1 THEN "delete_server"
                       ELSE IF Len(delLocal) >= 1 THEN "delete_local" ELSE "plan"
              /\ UNCHANGED <<stateFile, result, warning_msg, anomalies>>
       \/ \* list_files failed
          /\ anomalies < MaxAnomalies
          /\ SYNC_PROGRESS' = Progress("listing", 0, 0)
          /\ Fatal(stateFile)
          /\ UNCHANGED <<remote_list, listed, to_del_remote, to_del_local, total_work>>
    /\ done' = 0 /\ i' = 1
    /\ UNCHANGED <<localFs, localDirs, remoteFs, serverListsHashes, now, order, SYNC_STATUS, SYNC_MESSAGE,
                   planVars, execVars, callVars, histVars, opLog>>
    /\ UNCHANGED sideVars

\* one iteration of `for path in &to_del_remote`
DeleteServer ==
    /\ pc = "delete_server"
    /\ LET path == to_del_remote[i]
       IN  /\ SYNC_PROGRESS' = Progress("delete_server", done, total_work)
           /\ deleteCalls' = deleteCalls \cup {path}
           /\ opLog' = Logged(opLog, "delete_server")
           /\ \/ \* delete_file returned Ok (the file is gone, or was not there: 404)
                 /\ remoteFs' = Remove(remoteFs, path)
                 /\ done' = done + 1
                 /\ pc' = AfterDeleteServer(i + 1)
                 /\ i' = NextIndex(i + 1, "delete_server", AfterDeleteServer(i + 1))
                 /\ UNCHANGED <<stateFile, result, warning_msg, anomalies>>
              \/ \* delete_file failed
                 /\ MayFail(path)
                 /\ Fatal(state)
                 /\ UNCHANGED <<remoteFs, done, i>>
    /\ UNCHANGED <<localFs, localDirs, serverListsHashes, now, order, SYNC_STATUS, SYNC_MESSAGE, scanVars, planVars,
                   execVars, downloadCalls, uploadCalls, histVars>>
    /\ UNCHANGED sideVars

\* one iteration of `for path in &to_del_local`
DeleteLocal ==
    /\ pc = "delete_local"
    /\ LET path == to_del_local[i]
       IN  /\ SYNC_PROGRESS' = Progress("delete_local", done, total_work)
           /\ \/ \* the file is not there, or remove_file removed it
                 /\ localFs' = Remove(localFs, path)
                 /\ UNCHANGED anomalies
              \/ \* remove_file failed: `let _ =`
                 /\ path \in DOMAIN localFs /\ MayFail(path)
                 /\ anomalies' = anomalies + 1
                 /\ UNCHANGED localFs
           \* the walk up the parents, for a file that was there
           /\ localDirs' = IF path \in DOMAIN localFs
                            THEN RemoveEmptyParents(localDirs, localFs', Parent(path))
                            ELSE localDirs
           /\ opLog' = IF path \in DOMAIN localFs THEN Logged(opLog, "delete_local") ELSE opLog
           /\ done' = done + 1
           /\ pc' = AfterDeleteLocal(i + 1)
           /\ i' = NextIndex(i + 1, "delete_local", AfterDeleteLocal(i + 1))
    /\ UNCHANGED <<stateFile, remoteFs, serverListsHashes, now, order, SYNC_STATUS, SYNC_MESSAGE, scanVars,
                   planVars, execVars, result, warning_msg, callVars, histVars>>
    /\ UNCHANGED sideVars

\* base_synced, to_download (with the file_hashes it records), to_upload
Plan ==
    /\ pc = "plan"
    /\ LET currentLocal == DOMAIN local_list
           currentRemote == DOMAIN remote_list
           downloads == ToDownload(local_list, remote_list, Range(to_del_remote), localFs)
           uploads == ToUpload(local_list, remote_list, localFs, order)
           matched == DownloadHashSkips(local_list, remote_list, localFs)
       IN  /\ base_synced' = BaseSynced(currentLocal, Range(to_del_local), currentRemote, Range(to_del_remote))
           /\ to_download' = downloads
           /\ to_upload' = uploads
           /\ state' = [state EXCEPT !.file_hashes =
                           [p \in (DOMAIN state.file_hashes) \cup matched |->
                               IF p \in matched THEN remote_list[p].hash ELSE state.file_hashes[p]]]
           /\ hash_inserts' = {[path |-> p, hash |-> remote_list[p].hash, at |-> "plan"] : p \in matched}
           /\ matchedAtPlan' = {p \in currentLocal \cap currentRemote :
                                   /\ remote_list[p].hash # NoHash
                                   /\ p \in DOMAIN localFs
                                   /\ localFs[p].hash = remote_list[p].hash}
           /\ pc' = AfterDownload(1, downloads, uploads)
    /\ i' = 1
    /\ UNCHANGED <<worldVars, cellVars, last_synced, prev_downloaded, local_list, remote_list,
                   to_del_remote, to_del_local, total_work, listed, done, execVars, result, warning_msg,
                   callVars, histVars, anomalies, opLog>>
    /\ UNCHANGED sideVars

\* what the download loop leaves in `state` for a written file
RecordHash(st, path, remoteHashes) ==
    IF path \in DOMAIN remoteHashes
    THEN [st EXCEPT !.file_hashes = Insert(st.file_hashes, path, remoteHashes[path])]
    ELSE st

DownloadShortCircuit_fileNotLooked(path, prevDownloaded, remoteHashes, fileHashes, fs) ==
    \/ path \in prevDownloaded
    \/ /\ path \in DOMAIN remoteHashes
       /\ path \in DOMAIN fileHashes /\ fileHashes[path] = remoteHashes[path]

\* the two short-circuits at the head of the download loop
DownloadShortCircuit(path, prevDownloaded, remoteHashes, fileHashes, fs) ==
    \/ (path \in prevDownloaded /\ path \in DOMAIN fs)
    \/ /\ path \in DOMAIN remoteHashes
       /\ path \in DOMAIN fileHashes /\ fileHashes[path] = remoteHashes[path]
       /\ path \in DOMAIN fs

\* The Err(last_err) of download_file, as a sequence of pieces of text: the status of
\* the response, alone or followed by ": " and the response body; or the text of the
\* transport error.
StatusText(status, body) == IF body = <<>> THEN <<status>> ELSE <<status, ": ">> \o body
DownloadErrors ==
    {[status |-> "404", text |-> StatusText("404", <<>>)],
     [status |-> "404", text |-> StatusText("404", <<"File not found">>)],
     [status |-> "500", text |-> StatusText("500", <<>>)],
     [status |-> "500", text |-> StatusText("500", <<"no handler, upstream said ", "404">>)],
     [status |-> "none", text |-> <<"connection reset">>]}

\* std::fs::write(&local_path, &body) returned Err(e): e.kind()
WriteErrors == {"PermissionDenied", "Other"}

WriteErrorSkips_any(kind) == TRUE

\* e.kind() == std::io::ErrorKind::PermissionDenied
WriteErrorSkips(kind) == kind = "PermissionDenied"

\* e.contains("404")
Contains(text, piece) == piece \in Range(text)

\* std::fs::create_dir_all(parent): the directory and those above it
RECURSIVE create_dir_all(_, _)
create_dir_all(dirs, d) ==
    IF d = local_root THEN dirs \cup {d} ELSE create_dir_all(dirs \cup {d}, Parent(d))

\* one iteration of `for path in &to_download`
Download ==
    /\ pc = "download"
    /\ LET path == to_download[i]
           next == AfterDownload(i + 1, to_download, to_upload)
           goOn == /\ done' = done + 1
                   /\ pc' = next
                   /\ i' = NextIndex(i + 1, "download", next)
                   /\ UNCHANGED <<stateFile, result, warning_msg>>
       IN  /\ SYNC_PROGRESS' = Progress("download", done, total_work)
           /\ \/ \* short-circuit: nothing is called
                 /\ DownloadShortCircuit(path, prev_downloaded, RemoteHashes(remote_list),
                                         state.file_hashes, localFs)
                 /\ goOn
                 /\ UNCHANGED <<localFs, localDirs, state, execVars, downloadCalls, everDownloaded,
                                redownloaded, anomalies, opLog, hash_inserts>>
              \/ /\ ~DownloadShortCircuit(path, prev_downloaded, RemoteHashes(remote_list),
                                          state.file_hashes, localFs)
                 /\ downloadCalls' = downloadCalls \cup {path}
                 /\ opLog' = Logged(opLog, "download")
                 /\ redownloaded' = redownloaded \cup ({path} \cap userDeleted)
                 /\ \/ \* Ok(body), and the write succeeded
                       /\ path \in DOMAIN remoteFs
                       /\ localDirs' = create_dir_all(localDirs, Parent(path))
                       /\ localFs' = Insert(localFs, path, [mtime |-> now, hash |-> remoteFs[path].hash])
                       /\ completed_downloads' = completed_downloads \cup {path}
                       /\ state' = RecordHash(state, path, RemoteHashes(remote_list))
                       /\ hash_inserts' = hash_inserts \cup
                             {[path |-> path, hash |-> RemoteHashes(remote_list)[q], at |-> "download"] :
                                 q \in {path} \cap DOMAIN RemoteHashes(remote_list)}
                       /\ everDownloaded' = everDownloaded \cup {path}
                       /\ goOn
                       /\ UNCHANGED <<skipped_downloads, failed_downloads, anomalies>>
                    \/ \* Ok(body), and the write failed
                       \E kind \in WriteErrors :
                          /\ path \in DOMAIN remoteFs /\ MayFail(path)
                          /\ localDirs' = create_dir_all(localDirs, Parent(path))
                          /\ failed_downloads' = failed_downloads \cup {[path |-> path, status |-> kind]}
                          /\ IF WriteErrorSkips(kind)
                             THEN /\ skipped_downloads' = skipped_downloads \cup {path}
                                  /\ anomalies' = anomalies + 1
                                  /\ goOn
                                  /\ UNCHANGED <<localFs, state, completed_downloads,
                                                 everDownloaded, hash_inserts>>
                             ELSE /\ Fatal(state)
                                  /\ UNCHANGED <<localFs, state, completed_downloads, skipped_downloads,
                                                 everDownloaded, done, i, hash_inserts>>
                    \/ \* Err(e), after the client's retries: 404 when the file is not on the
                       \* server any more, else a failure of the server or of the transport
                       \E e \in DownloadErrors :
                          /\ IF e.status = "404" THEN path \notin DOMAIN remoteFs
                             ELSE path \in DOMAIN remoteFs /\ MayFail(path)
                          /\ failed_downloads' = failed_downloads \cup {[path |-> path, status |-> e.status]}
                          /\ UNCHANGED localDirs
                          /\ IF Contains(e.text, "404")
                             THEN /\ localFs' = Remove(localFs, path)
                                  /\ skipped_downloads' = skipped_downloads \cup {path}
                                  /\ anomalies' = anomalies + (IF e.status = "404" THEN 0 ELSE 1)
                                  /\ goOn
                                  /\ UNCHANGED <<state, completed_downloads, everDownloaded, hash_inserts>>
                             ELSE /\ Fatal(state)
                                  /\ UNCHANGED <<localFs, state, completed_downloads, skipped_downloads,
                                                 everDownloaded, done, i, hash_inserts>>
                 /\ UNCHANGED <<completed_uploads, skipped_uploads>>
    /\ UNCHANGED <<remoteFs, serverListsHashes, now, order, SYNC_STATUS, SYNC_MESSAGE,
                   last_synced, prev_downloaded, local_list, remote_list,
                   to_del_remote, to_del_local, total_work, listed,
                   base_synced, to_download, to_upload, matchedAtPlan, deleteCalls, uploadCalls,
                   cycles, prevStateFile, prevResult, uploadedBefore, userDeleted, serverChanged>>
    /\ UNCHANGED sideVars

\* The server after a whole-body upload of path: the content sent, stamped with the
\* time of receipt.
ServerStore(srv, path, content, t) == Insert(srv, path, [mtime |-> t, hash |-> content])

UploadStep_errorIgnored(present, callOk) ==
    IF ~present THEN "skip" ELSE "complete"

\* what the upload loop does with an item: the file is gone, the call returned Ok, or
\* the call returned Err
UploadStep(present, callOk) ==
    IF ~present THEN "skip"
    ELSE IF callOk THEN "complete" ELSE "abort"

\* one iteration of `for path in &to_upload`
Upload ==
    /\ pc = "upload"
    /\ LET path == to_upload[i]
           present == path \in DOMAIN localFs
           goOn == /\ done' = done + 1
                   /\ pc' = AfterUpload(i + 1)
                   /\ i' = NextIndex(i + 1, "upload", AfterUpload(i + 1))
                   /\ UNCHANGED <<stateFile, result, warning_msg, anomalies>>
       IN  /\ SYNC_PROGRESS' = Progress("upload", done, total_work)
           /\ \E callOk \in BOOLEAN :
                 \* upload_file_from_path is called for a file that is there; it may fail
                 /\ ~callOk => (present /\ MayFail(path))
                 /\ uploadCalls' = IF present THEN uploadCalls \cup {path} ELSE uploadCalls
                 /\ opLog' = IF present THEN Logged(opLog, "upload") ELSE opLog
                 /\ remoteFs' = IF present /\ callOk
                                THEN ServerStore(remoteFs, path, localFs[path].hash, now)
                                ELSE remoteFs
                 /\ IF UploadStep(present, callOk) = "complete"
                    THEN /\ completed_uploads' = completed_uploads \cup {path}
                         /\ goOn
                         /\ UNCHANGED skipped_uploads
                    ELSE IF UploadStep(present, callOk) = "abort"
                    THEN /\ Fatal(state)
                         /\ UNCHANGED <<completed_uploads, skipped_uploads, done, i>>
                    ELSE /\ skipped_uploads' = skipped_uploads \cup {path}
                         /\ goOn
                         /\ UNCHANGED completed_uploads
    /\ UNCHANGED <<localFs, localDirs, serverListsHashes, now, order, SYNC_STATUS, SYNC_MESSAGE, scanVars, planVars,
                   completed_downloads, skipped_downloads, failed_downloads,
                   deleteCalls, downloadCalls, histVars>>
    /\ UNCHANGED sideVars

\* the warnings, new_synced, save_sync_state, set_progress("idle"), Ok(..)
Commit ==
    /\ pc = "commit"
    /\ state' = [state EXCEPT !.paths = NewSynced(base_synced, completed_downloads, completed_uploads),
                              !.downloaded_paths = {}]
    /\ stateFile' = state'
    /\ SYNC_PROGRESS' = Progress("idle", 0, 0)
    /\ warning_msg' = Warnings(skipped_downloads, skipped_uploads)
    /\ result' = OkResult(warning_msg')
    /\ opLog' = Logged(opLog, "save")
    /\ pc' = "returned"
    /\ UNCHANGED <<localFs, localDirs, remoteFs, serverListsHashes, now, order, SYNC_STATUS, SYNC_MESSAGE,
                   last_synced, prev_downloaded, local_list, remote_list,
                   to_del_remote, to_del_local, total_work, listed, done, i,
                   planVars, execVars, callVars, histVars, anomalies>>
    /\ UNCHANGED sideVars

\* ------------------------------------------------------------ environment
\* Items of a planned list that the loop has not reached yet.
Pending(list, phase) ==
    IF pc = phase THEN {list[k] : k \in i..Len(list)}
    ELSE IF pc = "download" /\ phase = "upload" THEN Range(list) ELSE {}

\* The user removes a file: between two cycles, after the scan and before the plan
\* reads the files, or while the file waits for its upload.
UserDeletes(p) ==
    /\ p \in DOMAIN localFs /\ ~is_ignored(p)
    /\ anomalies < MaxAnomalies
    /\ \/ (pc = "idle" /\ cycles >= 1)
       \/ pc = "plan"
       \/ p \in Pending(to_upload, "upload")
    /\ localFs' = Remove(localFs, p)
    /\ userDeleted' = userDeleted \cup ({p} \cap everDownloaded)
    /\ anomalies' = anomalies + 1
    /\ UNCHANGED <<stateFile, localDirs, remoteFs, serverListsHashes, now, order, cellVars, pc, scanVars,
                   done, i, planVars, execVars, result, warning_msg, callVars,
                   cycles, prevStateFile, prevResult, uploadedBefore, everDownloaded, redownloaded,
                   serverChanged, opLog>>
    /\ UNCHANGED sideVars

\* Another device removes a file from the server while it waits for its download.
ServerLoses(p) ==
    /\ p \in DOMAIN remoteFs
    /\ anomalies < MaxAnomalies
    /\ p \in Pending(to_download, "download")
    /\ remoteFs' = Remove(remoteFs, p)
    /\ serverChanged' = TRUE
    /\ anomalies' = anomalies + 1
    /\ UNCHANGED <<stateFile, localFs, localDirs, serverListsHashes, now, order, cellVars, pc, scanVars,
                   done, i, planVars, execVars, result, warning_msg, callVars,
                   cycles, prevStateFile, prevResult, uploadedBefore, everDownloaded, userDeleted,
                   redownloaded, opLog>>
    /\ UNCHANGED sideVars

\* ------------------------------------------------------------ specification
Next ==
    \/ BeginCycle
    \/ Scan
    \/ DeleteServer
    \/ DeleteLocal
    \/ Plan
    \/ Download
    \/ Upload
    \/ Commit
    \/ Finish
    \/ \E p \in {A, B} : UserDeletes(p)
    \/ \E p \in {A, B} : ServerLoses(p)

Spec == Init /\ [][Next]_vars

\* The steps of a running cycle. The worker thread runs them one after the other and
\* each call returns, so a step that stays possible is taken.
CycleStep ==
    Scan \/ DeleteServer \/ DeleteLocal \/ Plan \/ Download \/ Upload \/ Commit \/ Finish

\* The fair runs, from the folders of a few files (the loops over many files are the
\* same loops).
InitLive ==
    /\ InitCycle /\ (InitIgnored \/ InitAllPhases)
    /\ localDirs = DirsOf(localFs)
    /\ DriverAtRest /\ ApiAtRest /\ DocAtRest
LiveSpec == InitLive /\ [][Next]_vars /\ WF_vars(CycleStep)

\* ------------------------------------------------------------- the driver
\* The run_sync command and the background loop of lib.rs, each with sync::run_sync
\* as one call that returns Ok, Ok with a warning, or Err. Several threads run here:
\* the command's workers and the loop.
NoFolder == "Err: Sync folder not set"
NotLoggedIn == "Err: Not logged in"
Started == "Ok: started"

\* network::get_base_url: the requests it sends (in mode auto it probes the LAN host).
Probes(mode) == IF mode = "auto" THEN 1 ELSE 0

\* get_valid_access_token: None without stored credentials; else the base URL is
\* resolved and the refresh request sent, and the token is what that request gives.
get_valid_access_token(stored, mode, refreshOk) ==
    IF stored = "none" THEN [token |-> FALSE, probes |-> 0, refreshes |-> 0]
    ELSE [token |-> refreshOk, probes |-> Probes(mode), refreshes |-> 1]

AddCalls(calls, probes, refreshes, cycleCalls) ==
    [probe |-> calls.probe + probes, refresh |-> calls.refresh + refreshes,
     cycle |-> calls.cycle + cycleCalls]

\* set_sync_status
WriteStatus(v) ==
    /\ SYNC_STATUS' = v
    /\ last_write' = [from |-> SYNC_STATUS, to |-> v]

\* app.emit("sync-status", get_sync_status_payload()) right after set_sync_status(s)
StatusEvent(s) == [name |-> "sync-status", status |-> s, bytes |-> <<>>]

\* Ok((bytes_downloaded, bytes_uploaded, warning)) / Err(e) of sync::run_sync
ByteTotals == {<<0, 0>>, <<1, 2>>}
Returns ==
    [res : {"Ok", "OkWarning"}, bytes : ByteTotals] \cup {[res |-> "Err", bytes |-> <<>>]}

Completed_always(r) ==
    <<[name |-> "sync-completed", status |-> "none", bytes |-> r.bytes]>>

\* what the arms of the match emit: "sync-completed" with the totals in the Ok arm
Completed(r) ==
    IF r.res \in {"Ok", "OkWarning"}
    THEN <<[name |-> "sync-completed", status |-> "none", bytes |-> r.bytes]>>
    ELSE <<>>

\* the match on the result of sync::run_sync and the emit that follows it
MatchResult(r) ==
    /\ WriteStatus(TerminalStatus(r.res))
    /\ returned' = r
    /\ emitted' = Completed(r) \o <<StatusEvent(TerminalStatus(r.res))>>

\* what the run_sync command returns
CommandReply(folderSet, token) ==
    IF ~folderSet THEN NoFolder ELSE IF ~token THEN NotLoggedIn ELSE Started

CommandWritesStatus_beforeChecks(r) == TRUE

\* whether the command reaches set_sync_status(Syncing): only past the two early returns
CommandWritesStatus(r) == r = Started

\* the run_sync command, up to its return (it does not read the status cell)
RunSyncCommand ==
    /\ triggers < MaxTriggers
    /\ triggers' = triggers + 1
    /\ \E refreshOk \in BOOLEAN :
          LET t == get_valid_access_token(credentials, base_url_mode, refreshOk)
              r == CommandReply(config_folder, t.token)
          IN  /\ reply' = r
              /\ remote_calls' =
                    IF r = NoFolder THEN remote_calls
                    ELSE AddCalls(remote_calls,
                                  t.probes + (IF r = Started THEN Probes(base_url_mode) ELSE 0),
                                  t.refreshes, 0)
              /\ IF CommandWritesStatus(r)
                 THEN WriteStatus("syncing") /\ emitted' = <<StatusEvent("syncing")>>
                 ELSE UNCHANGED <<SYNC_STATUS, last_write>> /\ emitted' = <<>>
              /\ workers' = IF r = Started THEN [workers EXCEPT ![triggers + 1] = "spawned"]
                            ELSE workers
    /\ UNCHANGED <<config_folder, credentials, base_url_mode, loop_pc, loop_iterations, returned,
                   engineVars, apiVars, docVars>>

\* the spawned thread enters sync::run_sync (its first request is the listing)
WorkerRunSync(w) ==
    /\ workers[w] = "spawned"
    /\ workers' = [workers EXCEPT ![w] = "cycle"]
    /\ remote_calls' = AddCalls(remote_calls, 0, 0, 1)
    /\ emitted' = <<>>
    /\ UNCHANGED <<SYNC_STATUS, last_write, config_folder, credentials, base_url_mode, returned,
                   loop_pc, loop_iterations, triggers, reply, engineVars, apiVars, docVars>>

\* sync::run_sync returned in the spawned thread: the match sets the status
WorkerFinish(w) ==
    /\ workers[w] = "cycle"
    /\ \E r \in Returns : MatchResult(r)
    /\ workers' = [workers EXCEPT ![w] = "done"]
    /\ UNCHANGED <<config_folder, credentials, base_url_mode, loop_pc, loop_iterations,
                   triggers, reply, remote_calls, engineVars, apiVars, docVars>>

\* one iteration of the background loop, from the read of the status to the token in
\* hand: the condition of the `if`, the folder, the second get_valid_access_token
BackgroundLoopCheck ==
    /\ loop_pc = "sleep" /\ loop_iterations < MaxLoopIterations
    /\ \E ok1 \in BOOLEAN, ok2 \in BOOLEAN :
          LET wants == SYNC_STATUS # "syncing" /\ config_folder
              t1 == get_valid_access_token(credentials, base_url_mode, ok1)
              t2 == get_valid_access_token(credentials, base_url_mode, ok2)
              go == wants /\ t1.token /\ t2.token
          IN  /\ (~wants => (ok1 /\ ok2)) /\ (~t1.token => ok2)
              /\ remote_calls' =
                    IF ~wants THEN remote_calls
                    ELSE IF ~t1.token THEN AddCalls(remote_calls, t1.probes, t1.refreshes, 0)
                    ELSE AddCalls(remote_calls,
                                  t1.probes + t2.probes + (IF go THEN Probes(base_url_mode) ELSE 0),
                                  t1.refreshes + t2.refreshes, 0)
              /\ loop_pc' = IF go THEN "ready" ELSE "sleep"
              /\ loop_iterations' = IF go THEN loop_iterations ELSE loop_iterations + 1
    /\ emitted' = <<>>
    /\ UNCHANGED <<SYNC_STATUS, last_write, config_folder, credentials, base_url_mode, returned,
                   workers, triggers, reply, engineVars, apiVars, docVars>>

\* the loop sets Syncing and enters sync::run_sync
BackgroundLoopStart ==
    /\ loop_pc = "ready"
    /\ WriteStatus("syncing")
    /\ emitted' = <<StatusEvent("syncing")>>
    /\ loop_pc' = "cycle"
    /\ remote_calls' = AddCalls(remote_calls, 0, 0, 1)
    /\ UNCHANGED <<config_folder, credentials, base_url_mode, workers, loop_iterations, returned,
                   triggers, reply, engineVars, apiVars, docVars>>

\* sync::run_sync returned in the loop: the match sets the status, the loop sleeps
BackgroundLoopFinish ==
    /\ loop_pc = "cycle"
    /\ \E r \in Returns : MatchResult(r)
    /\ loop_pc' = "sleep"
    /\ loop_iterations' = loop_iterations + 1
    /\ UNCHANGED <<config_folder, credentials, base_url_mode, workers,
                   triggers, reply, remote_calls, engineVars, apiVars, docVars>>

\* The process after start: no cycle yet; the configuration is any.
DriverInit ==
    /\ InitCycle /\ order = "fwd"
    /\ stateFile = EmptyState /\ localFs = Empty /\ localDirs = {local_root} /\ remoteFs = Empty /\ serverListsHashes = TRUE
    /\ config_folder \in BOOLEAN /\ credentials \in {"none", "stored"}
    /\ base_url_mode \in {"manual", "auto"}
    /\ workers = [w \in 1..MaxTriggers |-> "unspawned"]
    /\ loop_pc = "sleep" /\ loop_iterations = 0
    /\ triggers = 0 /\ reply = "none"
    /\ remote_calls = NoCalls
    /\ last_write = [from |-> "idle", to |-> "idle"]
    /\ returned = [res |-> "none", bytes |-> <<>>]
    /\ emitted = <<>>
    /\ ApiAtRest /\ DocAtRest

DriverNext ==
    \/ RunSyncCommand
    \/ \E w \in 1..MaxTriggers : WorkerRunSync(w)
    \/ \E w \in 1..MaxTriggers : WorkerFinish(w)
    \/ BackgroundLoopCheck
    \/ BackgroundLoopStart
    \/ BackgroundLoopFinish

DriverSpec == DriverInit /\ [][DriverNext]_vars

\* ------------------------------------------------------ the remote client
\* One call of list_files, delete_file, download_file or upload_file (api.rs), request
\* by request; net[k] is what happens to the k-th request of the call.
Ops == {"list_files", "delete_file", "download_file", "upload_file"}
Transient == {"reset", "timeout"}                 \* send() returned Err
Outcomes == {"ok", "status404", "status500"} \cup Transient
RetryAttempts == 3                                \* `for attempt in 0..3`

\* The requests a call may send: the loop of download_file and upload_file; list_files
\* and delete_file send one request and return its error through `?`.
AttemptsAllowed(op) ==
    IF op \in {"download_file", "upload_file"} THEN RetryAttempts ELSE 1

\* What one request means to the method: success, or an error.
SendResult(op, outcome) ==
    IF outcome = "ok" THEN "Ok"
    ELSE IF op = "delete_file" /\ outcome = "status404" THEN "Ok"
    ELSE "Err"

\* Any call, with a network that does anything to its requests.
ApiInit ==
    /\ InitCycle /\ order = "fwd"
    /\ stateFile = EmptyState /\ localFs = Empty /\ localDirs = {local_root} /\ remoteFs = Empty /\ serverListsHashes = TRUE
    /\ DriverAtRest /\ DocAtRest
    /\ api_op \in Ops
    /\ net \in [1..RetryAttempts -> Outcomes]
    /\ attempts = 0 /\ api_pc = "idle" /\ api_result = "none" /\ last_err = "none"

\* the cycle calls the method
ApiCall ==
    /\ api_pc = "idle"
    /\ api_pc' = "calling"
    /\ UNCHANGED <<api_op, net, attempts, api_result, last_err,
                   SYNC_STATUS, engineVars, driverVars, docVars>>

\* one request of the call: send, then return or go round the loop
ApiAttempt ==
    /\ api_pc = "calling"
    /\ attempts' = attempts + 1
    /\ LET outcome == net[attempts + 1]
       IN  IF SendResult(api_op, outcome) = "Ok"
           THEN /\ api_result' = "Ok" /\ api_pc' = "returned"
                /\ UNCHANGED last_err
           ELSE /\ last_err' = outcome
                /\ IF attempts + 1 < AttemptsAllowed(api_op)
                   THEN /\ api_pc' = "calling" /\ UNCHANGED api_result
                   ELSE /\ api_pc' = "returned" /\ api_result' = "Err"
    /\ UNCHANGED <<api_op, net, SYNC_STATUS, engineVars, driverVars, docVars>>

ApiNext == ApiCall \/ ApiAttempt

ApiSpec == ApiInit /\ [][ApiNext]_vars

\* ------------------------------------------------------- sync_state.json
\* save_sync_state and load_sync_state: serde_json::to_string_pretty, write, read,
\* serde_json::from_str. A string is a sequence of characters (a word such as "a.txt"
\* counts as one character); the text of the file is a sequence of characters too.
Quote == "\""
Backslash == "\\"
Newline == "\n"
Whitespace == {" ", "  ", Newline}

\* serde_json's string escapes
EscapeChar_verbatim(c) == <<c>>

EscapeChar(c) ==
    IF c = Quote THEN <<Backslash, Quote>>
    ELSE IF c = Backslash THEN <<Backslash, Backslash>>
    ELSE IF c = Newline THEN <<Backslash, "n">>
    ELSE <<c>>

RECURSIVE Escape(_)
Escape(str) == IF str = <<>> THEN <<>> ELSE EscapeChar(Head(str)) \o Escape(Tail(str))

WriteString(str) == <<Quote>> \o Escape(str) \o <<Quote>>

\* PrettyFormatter: two spaces per level, one item per line, "[]" and "{}" when empty
RECURSIVE Indent(_)
Indent(level) == IF level = 0 THEN <<>> ELSE <<"  ">> \o Indent(level - 1)

RECURSIVE WriteItems(_, _)
WriteItems(items, level) ==
    IF items = <<>> THEN <<>>
    ELSE <<Newline>> \o Indent(level) \o Head(items)
         \o (IF Len(items) > 1 THEN <<",">> ELSE <<>>) \o WriteItems(Tail(items), level)

WriteArray(strings, level) ==
    IF strings = <<>> THEN <<"[", "]">>
    ELSE <<"[">> \o WriteItems([k \in 1..Len(strings) |-> WriteString(strings[k])], level + 1)
         \o <<Newline>> \o Indent(level) \o <<"]">>

\* the entries of a HashMap, in the order its iteration gives
WriteMap(map, keys, level) ==
    IF keys = <<>> THEN <<"{", "}">>
    ELSE <<"{">>
         \o WriteItems([k \in 1..Len(keys) |->
                           WriteString(keys[k]) \o <<":", " ">> \o WriteString(map[keys[k]])],
                       level + 1)
         \o <<Newline>> \o Indent(level) \o <<"}">>

\* serde_json::to_string_pretty(&SyncStateFile): the fields in the order of the struct
to_string_pretty(d, keys) ==
    <<"{">>
    \o WriteItems(<<WriteString(<<"paths">>) \o <<":", " ">> \o WriteArray(d.paths, 1),
                    WriteString(<<"downloaded_paths">>) \o <<":", " ">>
                        \o WriteArray(d.downloaded_paths, 1),
                    WriteString(<<"file_hashes">>) \o <<":", " ">>
                        \o WriteMap(d.file_hashes, keys, 1)>>, 1)
    \o <<Newline, "}">>

\* The reader: each step gives whether it succeeded, the value read and the position
\* after it.
Failed == [ok |-> FALSE, value |-> <<>>, next |-> 0]
Read(value, next) == [ok |-> TRUE, value |-> value, next |-> next]

RECURSIVE SkipWhitespace(_, _)
SkipWhitespace(t, k) ==
    IF k <= Len(t) /\ t[k] \in Whitespace THEN SkipWhitespace(t, k + 1) ELSE k

At_endCloses(t, k, c) == (k <= Len(t) /\ t[k] = c) \/ (k > Len(t) /\ c = "}")

At(t, k, c) == k <= Len(t) /\ t[k] = c

\* the characters of a string up to its closing quote; a raw control character is an error
RECURSIVE ReadChars(_, _, _)
ReadChars(t, k, acc) ==
    IF k > Len(t) THEN Failed
    ELSE IF t[k] = Quote THEN Read(acc, k + 1)
    ELSE IF t[k] = Newline THEN Failed
    ELSE IF t[k] = Backslash
         THEN IF k + 1 > Len(t) THEN Failed
              ELSE IF t[k + 1] \in {Quote, Backslash, "/"}
                   THEN ReadChars(t, k + 2, Append(acc, t[k + 1]))
              ELSE IF t[k + 1] = "n" THEN ReadChars(t, k + 2, Append(acc, Newline))
              ELSE Failed
    ELSE ReadChars(t, k + 1, Append(acc, t[k]))

ReadString(t, k) == IF At(t, k, Quote) THEN ReadChars(t, k + 1, <<>>) ELSE Failed

\* the rest of an array of strings, after "[" or ","
RECURSIVE ReadArrayItems(_, _, _)
ReadArrayItems(t, k, acc) ==
    LET item == ReadString(t, SkipWhitespace(t, k))
        after == SkipWhitespace(t, item.next)
    IN  IF ~item.ok THEN Failed
        ELSE IF At(t, after, ",") THEN ReadArrayItems(t, after + 1, Append(acc, item.value))
        ELSE IF At(t, after, "]") THEN Read(Append(acc, item.value), after + 1)
        ELSE Failed

ReadArray(t, k) ==
    IF ~At(t, k, "[") THEN Failed
    ELSE IF At(t, SkipWhitespace(t, k + 1), "]") THEN Read(<<>>, SkipWhitespace(t, k + 1) + 1)
    ELSE ReadArrayItems(t, k + 1, <<>>)

\* the rest of a map of strings, after "{" or ","; a repeated key keeps the last value
RECURSIVE ReadMapEntries(_, _, _)
ReadMapEntries(t, k, acc) ==
    LET key == ReadString(t, SkipWhitespace(t, k))
        colon == SkipWhitespace(t, key.next)
        val == ReadString(t, SkipWhitespace(t, colon + 1))
        after == SkipWhitespace(t, val.next)
    IN  IF ~key.ok \/ ~At(t, colon, ":") \/ ~val.ok THEN Failed
        ELSE IF At(t, after, ",") THEN ReadMapEntries(t, after + 1, Insert(acc, key.value, val.value))
        ELSE IF At(t, after, "}") THEN Read(Insert(acc, key.value, val.value), after + 1)
        ELSE Failed

ReadMap(t, k) ==
    IF ~At(t, k, "{") THEN Failed
    ELSE IF At(t, SkipWhitespace(t, k + 1), "}") THEN Read(Empty, SkipWhitespace(t, k + 1) + 1)
    ELSE ReadMapEntries(t, k + 1, Empty)

\* the fields of SyncStateFile, after "{" or ","; `got` holds the fields read so far.
\* A field given twice is an error. serde skips a field that is not of the struct's
\* three; the writer above never produces one, and the reader stops at it.
FieldNames == {<<"paths">>, <<"downloaded_paths">>, <<"file_hashes">>}
RECURSIVE ReadFields(_, _, _)
ReadFields(t, k, got) ==
    LET key == ReadString(t, SkipWhitespace(t, k))
        colon == SkipWhitespace(t, key.next)
        at == SkipWhitespace(t, colon + 1)
        val == IF key.value = <<"file_hashes">> THEN ReadMap(t, at) ELSE ReadArray(t, at)
        after == SkipWhitespace(t, val.next)
    IN  IF ~key.ok \/ ~At(t, colon, ":") THEN Failed
        ELSE IF key.value \notin FieldNames \/ key.value \in DOMAIN got THEN Failed
        ELSE IF ~val.ok THEN Failed
        ELSE IF At(t, after, ",") THEN ReadFields(t, after + 1, Insert(got, key.value, val.value))
        ELSE IF At(t, after, "}") THEN Read(Insert(got, key.value, val.value), after + 1)
        ELSE Failed

\* serde_json::from_str::<SyncStateFile>: the three fields, nothing after the object
from_str(t) ==
    LET open == SkipWhitespace(t, 1)
        fields == IF At(t, open, "{") THEN ReadFields(t, open + 1, Empty) ELSE Failed
    IN  IF ~fields.ok THEN Failed
        ELSE IF DOMAIN fields.value # FieldNames THEN Failed
        ELSE IF SkipWhitespace(t, fields.next) <= Len(t) THEN Failed
        ELSE Read([paths |-> fields.value[<<"paths">>],
                   downloaded_paths |-> fields.value[<<"downloaded_paths">>],
                   file_hashes |-> fields.value[<<"file_hashes">>]], fields.next)

\* load_sync_state: the default document when the file is missing or does not parse
load_sync_state(exists, text) ==
    IF ~exists THEN DefaultDoc
    ELSE IF from_str(text).ok THEN from_str(text).value
    ELSE DefaultDoc

\* The strings of the documents: plain, with a backslash, with a quote, with a line
\* break, a backslash before an n, and the empty string.
DocStrings ==
    << <<"a.txt">>, <<"sub", Backslash, "Thumbs.db">>, <<"say ", Quote, "hi", Quote>>,
       <<"two", Newline, "lines">>, <<Backslash, "n">>, <<>> >>
DocStringSet == Range(DocStrings)

\* the keys of a HashMap in the order of its iteration
KeysInOrder(map, iteration) ==
    LET keys == SelectSeq(DocStrings, LAMBDA str : str \in DOMAIN map)
    IN  IF iteration = "fwd" THEN keys ELSE Reverse(keys)

DocHashes ==
    {Empty,
     (DocStrings[3] :> DocStrings[2]),
     (DocStrings[1] :> <<"h1">>) @@ (DocStrings[4] :> DocStrings[5])}

\* Texts that are not a SyncStateFile: nothing, a word, an object cut short, an object
\* without file_hashes, an array, an object followed by more.
Malformed ==
    {<<>>, <<"garbage">>, <<"{">>,
     <<"{", Quote, "paths", Quote, ":", "[", "]", ",",
       Quote, "downloaded_paths", Quote, ":", "[", "]", "}">>,
     <<"[", "]">>,
     to_string_pretty(DefaultDoc, <<>>) \o <<"}">>}

\* Any document to save, and no file yet; or a file that holds something else.
DocInit ==
    /\ InitCycle
    /\ stateFile = EmptyState /\ localFs = Empty /\ localDirs = {local_root} /\ remoteFs = Empty /\ serverListsHashes = TRUE
    /\ DriverAtRest /\ ApiAtRest
    /\ \/ /\ doc \in [paths : UNION {[1..n -> DocStringSet] : n \in 0..MaxPaths},
                       downloaded_paths : {<<>>, <<DocStrings[3]>>, <<DocStrings[2], DocStrings[2]>>},
                       file_hashes : DocHashes]
          /\ file_exists = FALSE /\ sync_state_json = <<>>
       \/ /\ doc = [paths |-> <<DocStrings[1]>>, downloaded_paths |-> <<>>, file_hashes |-> Empty]
          /\ file_exists = TRUE /\ sync_state_json \in Malformed
    /\ loaded = DefaultDoc /\ doc_pc = "start"

\* save_sync_state(&doc), with no I/O error
SaveSyncState ==
    /\ doc_pc = "start"
    /\ file_exists' = TRUE
    /\ sync_state_json' = to_string_pretty(doc, KeysInOrder(doc.file_hashes, order))
    /\ doc_pc' = "saved"
    /\ UNCHANGED <<doc, loaded, SYNC_STATUS, engineVars, driverVars, apiVars>>

\* save_sync_state(&doc) in a process that stops while std::fs::write is at work: the
\* file was truncated and holds the first k characters of the text.
SaveSyncStateTorn ==
    /\ doc_pc = "start"
    /\ LET text == to_string_pretty(doc, KeysInOrder(doc.file_hashes, order))
       IN  \E k \in 0..(Len(text) - 1) :
              /\ file_exists' = TRUE
              /\ sync_state_json' = SubSeq(text, 1, k)
    /\ doc_pc' = "torn"
    /\ UNCHANGED <<doc, loaded, SYNC_STATUS, engineVars, driverVars, apiVars>>

\* load_sync_state(): of the file as found at the start, after a save, or (in the next
\* run of the process) after a save cut short
LoadSyncState ==
    /\ doc_pc \in {"start", "saved", "torn"}
    /\ loaded' = load_sync_state(file_exists, sync_state_json)
    /\ doc_pc' = CASE doc_pc = "start" -> "loaded_first"
                   [] doc_pc = "saved" -> "loaded"
                   [] doc_pc = "torn" -> "loaded_torn"
    /\ UNCHANGED <<doc, file_exists, sync_state_json, SYNC_STATUS, engineVars, driverVars, apiVars>>

DocNext == SaveSyncState \/ SaveSyncStateTorn \/ LoadSyncState

DocSpec == DocInit /\ [][DocNext]_vars

\* ------------------------------------------------------------------ claims
ReturnedOk == pc = "returned" /\ result \in {"Ok", "OkWarning"}
ReturnedErr == pc = "returned" /\ result = "Err"

\* C1: after run_sync returned Ok, every persisted path is a file of the local folder
\* and a file of the server at that moment.
C1_PathsOnBothSides ==
    ReturnedOk => Range(stateFile.paths) \subseteq (DOMAIN localFs) \cap (DOMAIN remoteFs)

\* C2: with no change on the server, a file that a cycle wrote by download and the
\* user then deleted is never the subject of a later download call.
C2_NoRedownloadAfterUserDelete ==
    ~serverChanged => redownloaded = {}

\* The delete-server loop ran to its end (it was not left through `?`).
DeleteLoopDone ==
    /\ listed /\ pc # "delete_server"
    /\ ~(ReturnedErr /\ SYNC_PROGRESS.phase = "delete_server")

\* The paths the claims C3 and C6 are about: synced last time, not ignored, absent
\* from the scan; and the case in which the guardrail is to discard them.
VanishedLocally == {p \in last_synced \ DOMAIN local_list : ~is_ignored(p)}
GuardrailCase ==
    /\ Cardinality(VanishedLocally) > GuardrailLimit
    /\ Cardinality(VanishedLocally) > Cardinality(DOMAIN local_list)

\* C3 (as claimed): every non-ignored path of the last-synced set that the local scan
\* does not hold is in to_delete_remote, is not in to_download, and once the
\* delete-server loop is through its delete was called.
C3_VanishedIsDeletedRemotely ==
    listed => \A p \in VanishedLocally :
        /\ p \in Range(to_del_remote)
        /\ p \notin Range(to_download)
        /\ (DeleteLoopDone => p \in deleteCalls)

\* C3 (amended): the same, in the cycles whose guardrail does not discard the
\* delete set.
C3_VanishedIsDeletedUnlessGuardrail ==
    (listed /\ ~GuardrailCase) =>
        \A p \in VanishedLocally :
            /\ p \in Range(to_del_remote)
            /\ p \notin Range(to_download)
            /\ (DeleteLoopDone => p \in deleteCalls)

\* C3 witness: the plan is made, a vanished path that the server lists was deleted there.
C3_Witness ==
    /\ pc = "download"
    /\ ~GuardrailCase
    /\ \E p \in VanishedLocally : p \in DOMAIN remote_list /\ p \in deleteCalls

\* C4: to_delete_remote and to_download are disjoint in every cycle.
C4_DeleteRemoteDisjointDownload ==
    Range(to_del_remote) \cap Range(to_download) = {}

\* C4 witness: a path the server lists is slated for remote deletion while another
\* path is slated for download.
C4_Witness ==
    /\ pc = "download"
    /\ Range(to_del_remote) \cap DOMAIN remote_list # {}

\* C5: to_delete_local and to_upload are disjoint in every cycle.
C5_DeleteLocalDisjointUpload ==
    Range(to_del_local) \cap Range(to_upload) = {}

\* C6: the guardrail discards the remote deletes exactly when the candidates number
\* more than 50 and more than the local files; otherwise every candidate is deleted.
C6_Guardrail ==
    listed =>
        /\ GuardrailCase => (to_del_remote = <<>> /\ deleteCalls = {})
        /\ ~GuardrailCase => Range(to_del_remote) = VanishedLocally
        /\ (~GuardrailCase /\ DeleteLoopDone) => deleteCalls = VanishedLocally

\* C6 witness: exactly 50 candidates, and the delete of each was called.
C6_Witness ==
    /\ DeleteLoopDone
    /\ Cardinality(VanishedLocally) = GuardrailLimit
    /\ deleteCalls = VanishedLocally

\* C6, further cases reached: the guardrail fired; as many candidates as local files.
C6_WitnessFired ==
    /\ pc = "download"
    /\ Cardinality(VanishedLocally) = GuardrailLimit + 1
    /\ Cardinality(DOMAIN local_list) < GuardrailLimit
    /\ deleteCalls = {}
C6_WitnessAsManyAsLocal ==
    /\ DeleteLoopDone
    /\ Cardinality(VanishedLocally) > GuardrailLimit
    /\ Cardinality(VanishedLocally) = Cardinality(DOMAIN local_list)
    /\ deleteCalls = VanishedLocally

\* C7: a path on both sides whose listed hash equals the hash of the local file is
\* neither in to_download nor in to_upload, and is neither downloaded nor uploaded.
C7_EqualHashNoTransfer ==
    \A p \in matchedAtPlan :
        /\ p \notin Range(to_download) \cup Range(to_upload)
        /\ p \notin downloadCalls \cup uploadCalls

\* C7 witness: the cycle is past its transfers, with a content-equal path whose local
\* mtime is the later one, and another whose remote mtime is.
C7_Witness ==
    /\ pc = "commit"
    /\ \E p \in matchedAtPlan : local_list[p] > remote_list[p].mtime

C7_WitnessRemoteNewer ==
    /\ pc = "commit"
    /\ \E p \in matchedAtPlan : local_list[p] < remote_list[p].mtime

\* C8: a second cycle that follows a completed cycle, nothing having failed or changed
\* from outside, calls neither download nor upload (stated for the runs whose earlier
\* cycles uploaded nothing, so that every mtime compared is one the client saw or set).
C8_SecondCycleTransfersNothing ==
    (cycles >= 2 /\ prevResult \in {"Ok", "OkWarning"} /\ anomalies = 0 /\ ~uploadedBefore) =>
        (downloadCalls = {} /\ uploadCalls = {})

\* C9: no ignored path is in a delete set, in to_download, in to_upload, or in the
\* paths a cycle persisted.
C9_IgnoredNowhere ==
    \A p \in Range(to_del_remote) \cup Range(to_del_local) \cup Range(to_download)
             \cup Range(to_upload) \cup (IF ReturnedOk THEN Range(stateFile.paths) ELSE {}) :
        ~is_ignored(p)

\* C10: when run_sync returned an error, sync_state.json is what it was when the
\* cycle started.
C10_FatalKeepsStateFile ==
    ReturnedErr => stateFile = prevStateFile

\* C10 witness: the cycle aborted after a download was written and its hash recorded
\* in memory.
C10_Witness ==
    /\ ReturnedErr
    /\ completed_downloads # {}
    /\ state.file_hashes # stateFile.file_hashes

\* C13: after run_sync returned Ok, no path of skipped_downloads or skipped_uploads is
\* in the persisted paths.
C13_SkippedNotPersisted ==
    ReturnedOk => (skipped_downloads \cup skipped_uploads) \cap Range(stateFile.paths) = {}

\* C14: the driver's status after a cycle that returned Ok is warning exactly when a
\* download or an upload was skipped, and synced otherwise; the warning's message
\* gives, for downloads and for uploads, the number skipped (a kind of which nothing
\* was skipped has no part in the message).
CountStated(msg, what, n) ==
    IF n = 0 THEN \A k \in 1..Len(msg) : msg[k].what # what
    ELSE \E k \in 1..Len(msg) : msg[k].what = what /\ msg[k].count = n
C14_WarningIffSkipped ==
    [][(pc = "returned" /\ pc' = "idle" /\ result # "Err") =>
          LET nd == Cardinality(skipped_downloads)
              nu == Cardinality(skipped_uploads)
          IN  /\ SYNC_STATUS' = "warning" <=> (nd + nu > 0)
              /\ SYNC_STATUS' = "synced" <=> (nd + nu = 0)
              /\ (nd + nu > 0) =>
                    /\ CountStated(SYNC_MESSAGE', "download(s) skipped", nd)
                    /\ CountStated(SYNC_MESSAGE', "upload(s) skipped", nu)]_vars

\* C14 witness: the status is warning after a cycle that skipped a download and an
\* upload; and after a cycle that skipped uploads only.
C14_Witness ==
    /\ pc = "idle" /\ SYNC_STATUS = "warning"
    /\ Len(SYNC_MESSAGE) = 2
C14_WitnessUploadsOnly ==
    /\ pc = "idle" /\ SYNC_STATUS = "warning"
    /\ Len(SYNC_MESSAGE) = 1 /\ SYNC_MESSAGE[1].what = "upload(s) skipped"

\* C15: to_delete_remote is disjoint from to_upload and to_delete_local from
\* to_download; no path whose remote delete was called is uploaded, and no path of
\* the local deletes is downloaded, in the same cycle.
C15_DeleteDisjointTransferSameSide ==
    /\ Range(to_del_remote) \cap Range(to_upload) = {}
    /\ Range(to_del_local) \cap Range(to_download) = {}
    /\ deleteCalls \cap uploadCalls = {}
    /\ Range(to_del_local) \cap downloadCalls = {}

\* C15 witness: a cycle deleted on the server and uploaded; another deleted locally
\* and downloaded.
C15_Witness ==
    /\ pc = "commit"
    /\ deleteCalls # {} /\ uploadCalls # {}
C15_WitnessLocal ==
    /\ pc = "commit"
    /\ "delete_local" \in Range(opLog) /\ downloadCalls # {}

\* C16: the operations of a cycle happen in the order remote deletes, local deletes,
\* downloads, uploads, and the state is saved after them: in the log of the cycle no
\* phase comes after a later one, and none twice.
PhaseOrder == <<"delete_server", "delete_local", "download", "upload", "save">>
PhaseRank(phase) == CHOOSE k \in 1..Len(PhaseOrder) : PhaseOrder[k] = phase
C16_PhasesInOrder ==
    \A j, k \in 1..Len(opLog) : j < k => PhaseRank(opLog[j]) < PhaseRank(opLog[k])

\* C16 witness: a cycle that went through all four phases and saved.
C16_Witness == opLog = PhaseOrder

\* C19: every cycle that is started ends: once the status is syncing, it is eventually
\* synced, warning or error.
C19_CycleTerminates ==
    (SYNC_STATUS = "syncing") ~> (SYNC_STATUS \in {"synced", "warning", "error"})

\* C19 witness: the status is error after a cycle that went through its delete loop.
C19_Witness ==
    /\ pc = "idle" /\ cycles >= 1
    /\ SYNC_STATUS = "error" /\ SYNC_PROGRESS.phase # "listing"

\* The cycles that are executing sync::run_sync.
ActiveCycles ==
    Cardinality({w \in 1..MaxTriggers : workers[w] = "cycle"})
    + (IF loop_pc = "cycle" THEN 1 ELSE 0)

\* C11: at most one cycle is executing at any time, whatever the interleaving of the
\* run_sync command and the background loop.
C11_AtMostOneCycle == ActiveCycles <= 1

\* C12: syncing is written to the status cell only over a value that is not syncing,
\* and synced, warning or error only over syncing.
C12_StatusTransitions ==
    /\ last_write.to = "syncing" => last_write.from # "syncing"
    /\ last_write.to \in {"synced", "warning", "error"} => last_write.from = "syncing"

\* An invocation of the run_sync command that returned the error `err`.
Refused(err) == triggers' = triggers + 1 /\ reply' = err

\* C17 (as claimed): an invocation that returns an error, for want of a sync folder or
\* of an access token, leaves the status cell as it is, starts no worker and sends no
\* request.
C17_RefusedDoesNothing ==
    [][(Refused(NoFolder) \/ Refused(NotLoggedIn)) =>
          /\ SYNC_STATUS' = SYNC_STATUS /\ last_write' = last_write
          /\ workers' = workers
          /\ remote_calls' = remote_calls]_vars

\* C17 (amended): the same, except that the invocation that finds no valid token may
\* have sent the requests of get_valid_access_token (the LAN probe of the base URL and
\* the token refresh); it sends no request of a cycle.
C17_RefusedStartsNothing ==
    [][(Refused(NoFolder) \/ Refused(NotLoggedIn)) =>
          /\ SYNC_STATUS' = SYNC_STATUS /\ last_write' = last_write
          /\ workers' = workers
          /\ remote_calls'.cycle = remote_calls.cycle
          /\ Refused(NoFolder) => remote_calls' = remote_calls]_vars

\* C17 witness: the command was refused for want of a folder, and refused for want of
\* a token after its refresh request, while the status cell held a value set before.
C17_Witness ==
    /\ reply = NotLoggedIn /\ remote_calls.refresh >= 1
    /\ \A w \in 1..MaxTriggers : workers[w] = "unspawned"
    /\ SYNC_STATUS # "idle"
C17_WitnessNoFolder ==
    /\ reply = NoFolder /\ triggers = MaxTriggers
    /\ remote_calls = NoCalls /\ SYNC_STATUS = "idle"

\* The first request of the call that the network lets through, 0 if none is.
FirstOk == IF \E k \in 1..RetryAttempts : net[k] = "ok"
           THEN CHOOSE k \in 1..RetryAttempts : net[k] = "ok" /\ \A j \in 1..(k - 1) : net[j] # "ok"
           ELSE 0

\* C18: when the requests of a call of list_files, delete_file, download_file or
\* upload_file meet only transient failures, the call returns Ok at the first request
\* that gets through, having sent no further one, and returns Err only when three
\* requests failed.
C18_TransientRetried ==
    (api_pc = "returned" /\ \A k \in 1..RetryAttempts : net[k] \in Transient \cup {"ok"}) =>
        /\ FirstOk # 0 => (api_result = "Ok" /\ attempts = FirstOk)
        /\ FirstOk = 0 => (api_result = "Err" /\ attempts = RetryAttempts)

\* C20: a document saved with save_sync_state and loaded with load_sync_state comes
\* back with the same paths sequence, the same downloaded_paths and the same
\* file_hashes mapping.
C20_SaveLoadRoundTrip ==
    doc_pc = "loaded" =>
        /\ loaded.paths = doc.paths
        /\ loaded.downloaded_paths = doc.downloaded_paths
        /\ loaded.file_hashes = doc.file_hashes

\* C20 witness: a document came back whose paths hold a quote and a backslash and whose
\* file_hashes has two entries.
C20_Witness ==
    /\ doc_pc = "loaded"
    /\ \E j, k \in 1..Len(doc.paths) :
          /\ \E c \in 1..Len(doc.paths[j]) : doc.paths[j][c] = Quote
          /\ \E c \in 1..Len(doc.paths[k]) : doc.paths[k][c] = Backslash
    /\ Cardinality(DOMAIN doc.file_hashes) = 2
    /\ loaded = doc

\* C21: when the process stops while save_sync_state is writing, the next
\* load_sync_state returns the empty document or the whole document that was being
\* written, nothing else; and a missing or malformed file loads as the empty document
\* (load_sync_state has no error to return).
C21_TornWriteLoadsEmptyOrWhole ==
    /\ doc_pc = "loaded_torn" => loaded \in {DefaultDoc, doc}
    /\ (doc_pc = "loaded_first" /\ (~file_exists \/ sync_state_json \in Malformed)) =>
          loaded = DefaultDoc

\* C21 witness: the write stopped inside the second entry of file_hashes, after a
\* whole first entry, and the load gave the empty document.
C21_Witness ==
    /\ doc_pc = "loaded_torn"
    /\ Cardinality(DOMAIN doc.file_hashes) = 2
    /\ \E k \in 1..Len(sync_state_json) :
          /\ sync_state_json[k] = ","
          /\ \E j \in 1..(k - 1) : sync_state_json[j] = "file_hashes"
    /\ loaded = DefaultDoc /\ doc # DefaultDoc
C21_WitnessMalformed ==
    /\ doc_pc = "loaded_first" /\ file_exists /\ Len(sync_state_json) > 1
    /\ loaded = DefaultDoc

\* C22: every entry (P, h) that a cycle inserts into file_hashes has for h the hash
\* the server listed for P in that cycle, and either the hash computed from the local
\* file of P equalled h when the plan was made, or P was downloaded and written in
\* that cycle; no entry is inserted for a path whose download was skipped or failed.
C22_HashEntriesVerified ==
    /\ \A e \in hash_inserts :
          /\ e.path \in DOMAIN remote_list /\ remote_list[e.path].hash # NoHash
          /\ e.hash = remote_list[e.path].hash
          /\ state.file_hashes[e.path] = e.hash
          /\ e.path \in matchedAtPlan \/ e.path \in completed_downloads
    /\ \A p \in DOMAIN state.file_hashes :
          (p \notin DOMAIN prevStateFile.file_hashes \/ state.file_hashes[p] # prevStateFile.file_hashes[p])
              => \E e \in hash_inserts : e.path = p
    /\ \A e \in hash_inserts : e.path \notin skipped_downloads
    /\ (ReturnedErr /\ SYNC_PROGRESS.phase = "download") =>
          \A e \in hash_inserts : e.path # to_download[i]

\* C22 witness: a cycle inserted an entry for a content-equal file at the plan and one
\* for a written download, and skipped another download whose write was refused.
C22_Witness ==
    /\ pc = "commit"
    /\ \E e \in hash_inserts : e.at = "plan"
    /\ \E e \in hash_inserts : e.at = "download"
C22_WitnessSkipped ==
    /\ pc = "commit"
    /\ hash_inserts # {} /\ skipped_downloads \cap DOMAIN localFs # {}
    /\ skipped_downloads \cap DOMAIN RemoteHashes(remote_list) # {}

\* A step of the driver that starts a cycle, and one in which a cycle's run_sync
\* returned.
CycleStarts ==
    \/ (triggers' = triggers + 1 /\ reply' = Started)
    \/ (loop_pc = "ready" /\ loop_pc' = "cycle")
CycleEnds ==
    \/ \E w \in 1..MaxTriggers : workers[w] = "cycle" /\ workers'[w] = "done"
    \/ (loop_pc = "cycle" /\ loop_pc' = "sleep")

\* C23: the step that starts a cycle, from the command or from the loop, sets syncing
\* and then emits sync-status; the step that ends it sets the terminal status and then
\* emits sync-status, and before that one sync-completed with the byte totals run_sync
\* returned when the status is synced or warning, none when it is error; no other
\* step emits anything.
C23_EventsPerCycle ==
    [][/\ CycleStarts =>
            (last_write'.to = "syncing" /\ emitted' = <<StatusEvent("syncing")>>)
       /\ CycleEnds =>
            /\ last_write'.to \in {"synced", "warning", "error"}
            /\ last_write'.to \in {"synced", "warning"} =>
                  emitted' = <<[name |-> "sync-completed", status |-> "none", bytes |-> returned'.bytes],
                               StatusEvent(last_write'.to)>>
            /\ last_write'.to = "error" => emitted' = <<StatusEvent("error")>>
       /\ (~CycleStarts /\ ~CycleEnds) => emitted' = <<>>]_vars

\* C23 witness: a cycle of the background loop ended in warning, sync-completed with
\* its totals and sync-status emitted; a cycle of the command ended in error.
C23_Witness ==
    /\ loop_pc = "sleep" /\ last_write.to = "warning"
    /\ returned.bytes \in ByteTotals /\ returned.bytes[2] > 0
    /\ Len(emitted) = 2 /\ emitted[1].bytes = returned.bytes
C23_WitnessError ==
    /\ \E w \in 1..MaxTriggers : workers[w] = "done"
    /\ loop_iterations = 0 /\ loop_pc = "sleep"
    /\ last_write.to = "error" /\ emitted = <<StatusEvent("error")>>

C24_WitnessPrevDownloaded ==
    ReturnedOk /\ prev_downloaded # {} /\ stateFile.paths # <<>>
C24_WitnessGuardrail ==
    ReturnedOk /\ GuardrailCase /\ stateFile.paths # <<>>

\* The download whose error ended the cycle, if one did.
AbortedBy(p) ==
    ReturnedErr /\ SYNC_PROGRESS.phase = "download" /\ to_download[i] = p

\* C25: a download of P that fails with a 404 does not abort the cycle: the local copy
\* of P is gone, P is in skipped_downloads and not in completed_downloads, and the
\* loops go on to the last download and the last upload unless a later item aborts;
\* a download that fails with any other error aborts the cycle at that item.
C25_Only404IsSkipped ==
    \A e \in {f \in failed_downloads : f.status \notin WriteErrors} :
        /\ e.status = "404" =>
              /\ ~AbortedBy(e.path)
              /\ e.path \notin DOMAIN localFs
              /\ e.path \in skipped_downloads /\ e.path \notin completed_downloads
              /\ ReturnedOk => Range(to_upload) \subseteq uploadCalls \cup skipped_uploads
        /\ e.status # "404" =>
              /\ AbortedBy(e.path)
              /\ e.path \notin skipped_downloads

\* C26: a download of P whose write fails with permission-denied puts P in
\* skipped_downloads, inserts no file_hashes entry for P and does not abort the cycle,
\* which goes on with the next item and, when it returns Ok, returns a warning; a
\* write that fails with another error aborts the cycle at that item.
C26_PermissionDeniedIsSkipped ==
    \A e \in {f \in failed_downloads : f.status \in WriteErrors} :
        /\ e.status = "PermissionDenied" =>
              /\ e.path \in skipped_downloads /\ e.path \notin completed_downloads
              /\ \A h \in hash_inserts : h.path # e.path
              /\ ~AbortedBy(e.path)
              /\ pc = "download" => e.path \in {to_download[k] : k \in 1..(i - 1)}
              /\ ReturnedOk => (result = "OkWarning" /\ TerminalStatus(result) = "warning")
        /\ e.status # "PermissionDenied" =>
              /\ AbortedBy(e.path)
              /\ e.path \notin skipped_downloads \cup completed_downloads

\* C26 witness: the write of a.txt was refused, the download of sub/b.bin that follows
\* it was written, and the cycle returned Ok with a warning; and a cycle aborted by
\* another write error.
C26_Witness ==
    /\ ReturnedOk /\ result = "OkWarning"
    /\ [path |-> A, status |-> "PermissionDenied"] \in failed_downloads
    /\ B \in completed_downloads
C26_WitnessOther ==
    /\ ReturnedErr
    /\ \E e \in failed_downloads : e.status = "Other"

\* C27: in the upload phase a planned path whose local file is gone gets no upload
\* call, is in skipped_uploads and not in completed_uploads, and the loop goes on; for
\* a path whose file is there the call is made, an error of the call aborts the cycle
\* at that item, and the path is in completed_uploads only if the call succeeded (the
\* server then holds the content sent).
C27_UploadLoop ==
    /\ \A p \in skipped_uploads :
          /\ p \in Range(to_upload) /\ p \notin DOMAIN localFs
          /\ p \notin uploadCalls /\ p \notin completed_uploads
    /\ \A p \in uploadCalls :
          /\ p \in DOMAIN localFs /\ p \notin skipped_uploads
          /\ p \in completed_uploads =>
                (p \in DOMAIN remoteFs /\ remoteFs[p] = [mtime |-> now, hash |-> localFs[p].hash])
          /\ p \notin completed_uploads =>
                (ReturnedErr /\ SYNC_PROGRESS.phase = "upload" /\ to_upload[i] = p)
    /\ completed_uploads \subseteq uploadCalls
    /\ pc = "upload" =>
          {to_upload[k] : k \in 1..(i - 1)} = skipped_uploads \cup completed_uploads
    /\ ReturnedOk => Range(to_upload) = skipped_uploads \cup completed_uploads

\* C27 witness: the first planned upload was skipped for want of its file and a later
\* one completed; and a cycle aborted by a failed upload after a completed one.
C27_Witness ==
    /\ pc = "commit"
    /\ Len(to_upload) >= 2 /\ to_upload[1] \in skipped_uploads
    /\ completed_uploads # {}
C27_WitnessAbort ==
    /\ ReturnedErr /\ SYNC_PROGRESS.phase = "upload"
    /\ to_upload[i] \in uploadCalls /\ completed_uploads # {}

\* An iteration of the download loop, as a step: it counts the item or returns Err.
DownloadIteration == pc = "download" /\ (done' = done + 1 \/ pc' = "returned")

\* C28: at the turn of a path P of to_download, download(P) is not called exactly when
\* the local file of P is there and P is in the downloaded_paths of the document the
\* cycle loaded, or the file_hashes entry of that document for P is the hash the
\* server listed for P; such a path is counted as done and goes neither to
\* completed_downloads nor to skipped_downloads.
C28_DownloadShortCircuits ==
    [][DownloadIteration =>
          LET P == to_download[i]
              shortCircuit ==
                  /\ P \in DOMAIN localFs
                  /\ \/ P \in prevStateFile.downloaded_paths
                     \/ /\ P \in DOMAIN remote_list /\ remote_list[P].hash # NoHash
                        /\ P \in DOMAIN prevStateFile.file_hashes
                        /\ prevStateFile.file_hashes[P] = remote_list[P].hash
          IN  /\ shortCircuit <=> (P \notin downloadCalls')
              /\ shortCircuit =>
                    /\ done' = done + 1
                    /\ P \notin completed_downloads' \cup skipped_downloads'
                    /\ localFs' = localFs]_vars

\* C28 witness: a.txt was planned for download and not downloaded, its file being
\* there: once for being in downloaded_paths, once for its file_hashes entry; and a
\* path with that entry and no local file was downloaded.
C28_Witness ==
    /\ pc = "commit" /\ A \in Range(to_download) /\ A \notin downloadCalls
    /\ A \in prev_downloaded /\ A \notin DOMAIN state.file_hashes
C28_WitnessHash ==
    /\ pc = "commit" /\ A \in Range(to_download) /\ A \notin downloadCalls
    /\ A \notin prev_downloaded
C28_WitnessNoFile ==
    /\ pc = "commit" /\ A \in completed_downloads /\ A \notin DOMAIN local_list
    /\ A \in DOMAIN prevStateFile.file_hashes
    /\ prevStateFile.file_hashes[A] = remote_list[A].hash

\* The step in which the plan is made.
PlanStep == pc = "plan" /\ pc' # "plan"

\* C29: to_upload holds, once each, exactly the non-ignored paths P of the local scan
\* that the remote listing lacks, or that it holds with a local mtime greater than the
\* remote one unless the server lists a hash for P and the hash computed from the
\* local file equals it; a file whose hash cannot be computed does not count as equal.
C29_ToUploadExact ==
    [][PlanStep =>
          LET equalContent(P) ==
                  /\ remote_list[P].hash # NoHash
                  /\ P \in DOMAIN localFs
                  /\ localFs[P].hash = remote_list[P].hash
              expected ==
                  {P \in DOMAIN local_list :
                      /\ ~is_ignored(P)
                      /\ \/ P \notin DOMAIN remote_list
                         \/ (local_list[P] > remote_list[P].mtime /\ ~equalContent(P))}
          IN  /\ Range(to_upload') = expected
              /\ Len(to_upload') = Cardinality(expected)]_vars

\* C29 witness: a plan with an upload of a path the server holds, older and with
\* another content; and one of a path whose file was gone when its hash was to be
\* computed, the server listing a hash for it.
C29_Witness ==
    /\ pc = "upload" /\ i = 1
    /\ \E P \in Range(to_upload) \cap DOMAIN remote_list :
          /\ remote_list[P].hash # NoHash /\ P \in DOMAIN localFs
          /\ localFs[P].hash # remote_list[P].hash
C29_WitnessNoHash ==
    /\ pc = "upload" /\ i = 1 /\ uploadCalls = {} /\ skipped_uploads = {}
    /\ \E P \in Range(to_upload) \cap DOMAIN remote_list :
          remote_list[P].hash # NoHash /\ P \notin DOMAIN localFs

\* C30: to_download is, sorted and each path once, exactly: the non-ignored paths of
\* the remote listing that the local scan lacks, without those of to_delete_remote,
\* and the non-ignored paths on both sides whose remote mtime is greater than the
\* local one, unless the server lists a hash equal to the hash computed from the
\* local file.
C30_ToDownloadExact ==
    [][PlanStep =>
          LET sameContent(P) ==
                  /\ remote_list[P].hash # NoHash
                  /\ P \in DOMAIN localFs
                  /\ localFs[P].hash = remote_list[P].hash
              remoteOnly ==
                  {P \in (DOMAIN remote_list) \ (DOMAIN local_list) : ~is_ignored(P)}
                  \ Range(to_del_remote)
              remoteNewer ==
                  {P \in (DOMAIN remote_list) \cap (DOMAIN local_list) :
                      /\ ~is_ignored(P)
                      /\ remote_list[P].mtime > local_list[P]
                      /\ ~sameContent(P)}
          IN  /\ Range(to_download') = remoteOnly \cup remoteNewer
              /\ Len(to_download') = Cardinality(remoteOnly \cup remoteNewer)
              /\ to_download' = Sort(Range(to_download'))]_vars

\* C30 witness: a plan whose to_download holds a path the folder lacks and a path the
\* folder holds in an older version, in that order; one that leaves out a newer remote
\* file of equal content; and one that leaves out a path of to_delete_remote.
C30_Witness ==
    /\ pc = "download" /\ i = 1 /\ downloadCalls = {}
    /\ to_download = <<A, B>>
    /\ A \notin DOMAIN local_list /\ B \in DOMAIN local_list
C30_WitnessEqualContent ==
    /\ pc = "download" /\ i = 1 /\ downloadCalls = {}
    /\ \E P \in matchedAtPlan \ Range(to_download) : remote_list[P].mtime > local_list[P]
C30_WitnessDeleted ==
    /\ pc = "download" /\ i = 1 /\ downloadCalls = {}
    /\ (Range(to_del_remote) \cap DOMAIN remote_list) \ Range(to_download) # {}

\* C31: the total of every progress update of the transfer phases is the number of
\* planned remote deletes, local deletes, downloads and uploads of the cycle, the
\* transfers planned for paths present on both sides included.
C31_TotalIsPlannedWork ==
    (/\ pc \in {"download", "upload", "commit", "returned"}
     /\ SYNC_PROGRESS.phase \in {"download", "upload"})
        => SYNC_PROGRESS.total = Len(to_del_remote) + Len(to_del_local)
                                 + Len(to_download) + Len(to_upload)

\* C32: whenever no cycle is running after one has ended, with Ok or with a fatal
\* error, the progress cell reads phase idle with current 0 and total 0.
C32_ProgressResetAfterCycle ==
    (pc = "returned" \/ (pc = "idle" /\ cycles >= 1))
        => SYNC_PROGRESS = Progress("idle", 0, 0)

\* The depths along a delete list never increase: a deeper path stands before every
\* shallower one.
DeepestFirst(list) ==
    \A k \in 1..(Len(list) - 1) : Depth(list[k]) >= Depth(list[k + 1])

\* C33: both delete lists are processed in order of non-increasing depth: the lists
\* stand deepest first, each loop takes the items in the order of its list (a remote
\* delete has been called for exactly the items before the current one; a local file
\* later in the list is still there while an earlier one is removed), and the cleanup
\* of empty directories after a local delete leaves the sync root.
C33_DeepestFirstAndRootKept ==
    /\ DeepestFirst(to_del_remote) /\ DeepestFirst(to_del_local)
    /\ pc = "delete_server" => deleteCalls = {to_del_remote[k] : k \in 1..(i - 1)}
    /\ pc = "delete_local" =>
          \A k \in i..Len(to_del_local) :
              to_del_local[k] \in DOMAIN local_list => to_del_local[k] \in DOMAIN localFs
    /\ local_root \in localDirs

\* C33 witness: a delete list with a.txt and sub/b.bin is at its second item, the
\* deeper file is deleted and the shallower one is not yet: on the server; in the
\* folder, where the emptied directory sub is gone; and a local delete emptied the
\* folder, whose root remains.
C33_Witness ==
    /\ pc = "delete_server" /\ i = 2 /\ to_del_remote = <<B, A>>
    /\ order = "fwd" /\ B \notin DOMAIN remoteFs /\ A \in DOMAIN remoteFs
C33_WitnessLocal ==
    /\ pc = "delete_local" /\ i = 2 /\ to_del_local = <<B, A>>
    /\ order = "fwd" /\ B \notin DOMAIN localFs /\ A \in DOMAIN localFs
    /\ Parent(B) \notin localDirs
C33_WitnessEmptied ==
    /\ pc = "plan" /\ Len(to_del_local) >= 1 /\ to_del_local[1] \in DOMAIN local_list
    /\ DOMAIN localFs = {} /\ localDirs = {local_root}

\* The files of a folder or of the server that the engine looks at.
NonIgnored(S) == {p \in S : ~is_ignored(p)}

\* C34: after a cycle that returned Ok with no warning, nothing having changed from
\* outside and no operation having failed so far, the non-ignored files of the folder
\* are the non-ignored files of the server, and both are the persisted paths, whether
\* or not the guardrail fired.
C34_Converged ==
    (pc = "returned" /\ result = "Ok" /\ anomalies = 0)
        => /\ NonIgnored(DOMAIN localFs) = NonIgnored(DOMAIN remoteFs)
           /\ Range(stateFile.paths) = NonIgnored(DOMAIN localFs)

\* C34 witness: such a cycle, after a delete on the server and an upload; after a
\* download, with a path in to_del_local; a second one in a row; and one in which the
\* guardrail fired and the files the folder lacked were downloaded.
C34_Witness ==
    /\ pc = "returned" /\ result = "Ok" /\ anomalies = 0
    /\ deleteCalls # {} /\ completed_uploads # {}
C34_WitnessDownload ==
    /\ pc = "returned" /\ result = "Ok" /\ anomalies = 0
    /\ completed_downloads # {} /\ to_del_local # <<>>
C34_WitnessSecond ==
    /\ pc = "returned" /\ result = "Ok" /\ anomalies = 0 /\ cycles = 2
    /\ stateFile.paths # <<>>
C34_WitnessGuardrail ==
    /\ pc = "returned" /\ result = "Ok" /\ anomalies = 0
    /\ GuardrailFires(DeleteRemoteCandidates(last_synced, DOMAIN local_list), DOMAIN local_list)
    /\ Cardinality(completed_downloads) > GuardrailLimit

\* C35: a path P of the last-synced set that the folder holds and the listing lacks,
\* in a cycle with no failure and no change from outside: the cycle ends with the
\* status synced, P is gone from the folder, no upload of P is attempted or skipped,
\* and P is not in the persisted paths.
C35_SyncedFileGoneFromServer ==
    \A P \in (last_synced \cap DOMAIN local_list) \ DOMAIN remote_list :
        (pc = "returned" /\ listed /\ anomalies = 0)
            => /\ TerminalStatus(result) = "synced"
               /\ P \notin DOMAIN localFs
               /\ P \notin uploadCalls \cup skipped_uploads
               /\ P \notin Range(stateFile.paths)

\* C36: a cycle never calls upload for a path of the last-synced set that the listing
\* lacks, also when the removal of its local copy failed.
C36_NoUploadOfDeletedOnServer ==
    listed => (last_synced \ DOMAIN remote_list) \cap uploadCalls = {}

\* A step of the running cycle, as opposed to a change from outside: it counts an item
\* or moves to the next phase.
EngineStep == pc \notin {"idle", "returned"} /\ (done' # done \/ pc' # pc)

\* C37: a cycle removes a local file P only if P was in the last-synced set at the
\* start of the cycle and the listing lacks it; a file whose path was never in the
\* persisted paths is never deleted by the engine.
C37_LocalDeleteOnlyOfSynced ==
    [][EngineStep =>
          \A P \in (DOMAIN localFs) \ (DOMAIN localFs') :
              P \in last_synced /\ P \notin DOMAIN remote_list]_vars

\* C38: a download of P is skipped for its file_hashes entry being the hash the server
\* listed only when the local file of P has, at that moment, the content of that hash.
C38_HashSkipOnlyOfEqualContent ==
    [][DownloadIteration =>
          LET P == to_download[i]
              skippedForHash ==
                  /\ P \notin downloadCalls' /\ P \notin prev_downloaded
                  /\ P \in DOMAIN state.file_hashes /\ P \in DOMAIN remote_list
                  /\ state.file_hashes[P] = remote_list[P].hash
          IN  skippedForHash => (P \in DOMAIN localFs /\ localFs[P].hash = remote_list[P].hash)]_vars

\* C39: for every prior state and listings, to_download and to_upload are disjoint.
C39_DownloadDisjointUpload ==
    Range(to_download) \cap Range(to_upload) = {}

\* C39 witness: a plan with a download and an upload; and one over a path that is on
\* both sides with differing content, which goes to exactly one of the two lists.
C39_Witness ==
    /\ pc = "download" /\ to_download # <<>> /\ to_upload # <<>>
C39_WitnessBothSides ==
    /\ pc \in {"download", "upload"} /\ i = 1 /\ done = Len(to_del_remote) + Len(to_del_local)
    /\ A \in (DOMAIN local_list) \cap (DOMAIN remote_list)
    /\ A \notin matchedAtPlan
    /\ A \in Range(to_download) \cup Range(to_upload)

\* C40: in every progress snapshot a reader can observe, current is at most total.
C40_CurrentAtMostTotal ==
    SYNC_PROGRESS.current <= SYNC_PROGRESS.total

=============================================================================
